---- MODULE Spec2Model ----
(***************************************************************************)
(* RESTeasy: a binding layer between a REST resource, a listing table and  *)
(* an editing form.  The model follows class RESTeasy: every action is an  *)
(* async function; a step of the model runs one action from one await to   *)
(* the next.                                                               *)
(***************************************************************************)
EXTENDS Integers, Sequences, FiniteSets, TLC

VARIABLES engine, call, hooks, search, form, rows, status, pageNumber, pageTotal, pager,
          tasks

vars == <<engine, call, hooks, search, form, rows, status, pageNumber, pageTotal, pager,
          tasks>>

\* ------------------------------------------------------------------------
\* JavaScript values.  A value is a record [t, v]: t is its type as far as
\* the engine's tests see it, v its string conversion.
\* ------------------------------------------------------------------------
Absent == [t |-> "absent", v |-> ""]
Str(s) == [t |-> "str", v |-> s]
Num(s) == [t |-> "num", v |-> s]

\* JS truthiness (the engine tests values with if (x), !x and x || y)
Truthy(x) == /\ x.t # "absent"
             /\ ~(x.t = "str" /\ x.v = "")
             /\ ~(x.t = "num" /\ x.v = "0")

\* What a DOM string attribute (field.value, tr.id) holds after x is assigned
DomString(x) == IF x.t = "absent" THEN "undefined" ELSE x.v

\* Items: def = FALSE is the JS value undefined, def = TRUE an object
Item(id, name) == [def |-> TRUE, id |-> id, name |-> name]
Undefined == [def |-> FALSE, id |-> Absent, name |-> Absent]
EmptyItem == Item(Absent, Absent)

ItemA == Item(Str("1"), Str("Foo"))
ItemB == Item(Num("2"), Num("7"))
Items == {ItemA, ItemB}

\* Error values: what a catch block receives.  t is the shape _updateStatus
\* distinguishes, keys the own property names _highlightErrors looks up.
\* errors and error are the payload's properties of those names, when it
\* has them.
NoSub == [def |-> FALSE, keys |-> {}]
Sub(keys) == [def |-> TRUE, keys |-> keys]
Err(t, v, keys) == [t |-> t, v |-> v, keys |-> keys,
                    errors |-> NoSub, error |-> NoSub]
NoErr == Err("absent", "", {})
\* `log` is not bound in the scope of _doHook, `val` not in _updateStatus
RefErrLog == Err("msg", "log is not defined", {})
RefErrVal == Err("msg", "val is not defined", {})
NetErr == Err("msg", "Failed to fetch", {})
NotIterable == Err("msg", "data is not iterable", {})
\* reading or assigning a property of null, undefined or (strict code) a
\* primitive
TypeErr == Err("msg", "TypeError", {})
NothingSelected == Err("str", "Nothing selected", {})
ErrText == Err("str", "Server error", {})
ErrFields == Err("obj", "", {"name"})
ErrErrors == [Err("obj", "", {"errors", "name"}) EXCEPT !.errors = Sub({"id"})]
ErrError == [Err("obj", "", {"error", "id"}) EXCEPT !.error = Sub({"name"})]
HttpErrors == {ErrText, ErrFields}
\* errors.errors || errors.error || errors, as _save hands it to
\* _highlightErrors
ErrorKeys(err) ==
    IF err.errors.def THEN err.errors.keys
    ELSE IF err.error.def THEN err.error.keys ELSE err.keys

\* ------------------------------------------------------------------------
\* Configuration (constructor arguments)
\* ------------------------------------------------------------------------
Endpoint == [path |-> "/api/widgets", query |-> "sort=name"]
IdField == "id"
NameField == "name"
PageIncrement == 5
HasPageTotalProperty == TRUE
HasPageNumberParam == TRUE
FormFields == {"id", "name"}
HookNames == {"preSearch", "preUpdateTable", "postUpdateTable",
              "preUpdateForm", "postUpdateForm", "preSave", "postSave",
              "preDelete", "postDelete"}
\* Options explored: no hook at all, the hooks of one life-cycle operation
\* (a bound hook that returns nothing passes its payload through), or the
\* option preFindByID, which the constructor does not take and does not bind
HookConfigs == { {},
                 {"preSearch", "preUpdateTable", "postUpdateTable"},
                 {"preUpdateForm", "postUpdateForm"},
                 {"preSave", "postSave"},
                 {"preDelete", "postDelete"},
                 {"preFindByID"} }

\* this.endpoint, and this.endpointBase: the endpoint without its query string
EndpointUrl == Endpoint.path \o "?" \o Endpoint.query
EndpointBase == Endpoint.path

\* ------------------------------------------------------------------------
\* Pure helpers of the engine
\* ------------------------------------------------------------------------
\* a || b
Or(a, b) == IF Truthy(a) THEN a ELSE b

Status(text, detail) == [text |-> text, detail |-> detail]

\* _updateStatus(text, status): the new text of statusElement, or threw when
\* the branch for a non-string status evaluates the unbound name val.
UpdateStatus(cur, text, st) ==
    IF ~Truthy(st) THEN [threw |-> FALSE, status |-> Status(text, "")]
    ELSE IF st.t \in {"msg", "smsg", "str"}
         THEN [threw |-> FALSE, status |-> Status(text, st.v)]
         ELSE [threw |-> TRUE, status |-> cur]

\* _highlightErrors(errors): a field is invalid iff errors has its name
HighlightErrorsAdd(f, keys) ==
    [n \in DOMAIN f |-> [f[n] EXCEPT !.invalid = (@ \/ n \in keys)]]
HighlightErrors(f, keys) ==
    [n \in DOMAIN f |-> [f[n] EXCEPT !.invalid = (n \in keys)]]

\* deepFind(obj, path) for the two paths the form and the table use
DeepFind(item, path) ==
    IF path = IdField THEN item.id
    ELSE IF path = NameField THEN item.name ELSE Absent

\* _writeFormFields(obj): every named field is a plain text control here
WriteFormFields(f, item) ==
    [n \in DOMAIN f |->
        LET val == DeepFind(item, n)
        IN  [f[n] EXCEPT !.value =
                 IF val.t = "absent" THEN "" ELSE DomString(val)]]

\* _readFormFields(): one key per named, enabled field, whatever it holds
ReadFormFieldsSkipEmpty(f) ==
    LET keys == {n \in DOMAIN f : f[n].value # ""}
    IN  [n \in keys |-> f[n].value]
ReadFormFields(f) == [n \in DOMAIN f |-> f[n].value]

\* _updateSelected(id): row.id === id
UpdateSelected(rs, id) ==
    [i \in DOMAIN rs |->
        [rs[i] EXCEPT !.selected = (id.t = "str" /\ id.v = rs[i].id)]]

\* The rows _updateTable appends for data (tableFields = [nameField])
RenderRows(items) ==
    [i \in DOMAIN items |->
        [id |-> DomString(items[i].id),
         cell |-> DomString(DeepFind(items[i], NameField)),
         selected |-> FALSE]]

\* The pagination status block at the end of _updateTable
UpdatePager(cur, pn, pt) ==
    IF pt # 0
    THEN LET c == (pn \div PageIncrement) + 1
             t == (pt \div PageIncrement) + 1
         IN  [cur |-> c, tot |-> t,
              nextDisabled |-> (c = t), prevDisabled |-> (c = 1)]
    ELSE cur

\* _doHook(hook, data) once the hook has settled: outcome is "absent" (no
\* function bound), "none" (returned nothing), "value" (returned ret),
\* "raise", or "meta": a hook (data, meta) => { meta.url = ... }, which is
\* called with data alone, so that its assignment raises a TypeError.  The
\* catch block evaluates the unbound name log.
Raises(outcome) == outcome \in {"raise", "meta"}
DoHookSwallow(outcome, truthy, ret, data) ==
    [raised |-> FALSE, err |-> NoErr,
     value |-> IF outcome = "value" /\ truthy THEN ret ELSE data]
DoHookIgnoreReturn(outcome, truthy, ret, data) ==
    [raised |-> Raises(outcome),
     err |-> IF Raises(outcome) THEN RefErrLog ELSE NoErr,
     value |-> data]
DoHook(outcome, truthy, ret, data) ==
    [raised |-> Raises(outcome),
     err |-> IF Raises(outcome) THEN RefErrLog ELSE NoErr,
     value |-> IF outcome = "value" /\ truthy THEN ret ELSE data]

\* ------------------------------------------------------------------------
\* Transport: what fetch() and response.json() deliver
\* ------------------------------------------------------------------------
Resp(kind, shape, items, total, err) ==
    [kind |-> kind, shape |-> shape, items |-> items, total |-> total,
     err |-> err]
NetFail == Resp("neterr", "none", <<>>, -1, NoErr)
NoContent == Resp("204", "none", <<>>, -1, NoErr)
HttpFail(e) == Resp("error", "none", <<>>, -1, e)
Ok(shape, items, total) == Resp("ok", shape, items, total, NoErr)

ListResponses ==
    {NetFail} \cup {HttpFail(e) : e \in HttpErrors}
    \cup { Ok("array", <<ItemA>>, -1), Ok("results", <<ItemB, ItemA>>, 12),
           Ok("object", <<ItemA>>, -1) }

ItemResponses ==
    {NetFail, NoContent} \cup {HttpFail(e) : e \in HttpErrors}
    \cup { Ok("object", <<ItemA>>, -1), Ok("results", <<ItemB>>, -1) }

SaveResponses == ItemResponses \cup {HttpFail(ErrErrors), HttpFail(ErrError)}

List(items) == [iter |-> TRUE, items |-> items]
NotAList == [iter |-> FALSE, items |-> <<>>]

\* fetchJSON(url, options, {array, first, count}) once the response is in.
\* The body of an ok response is an array of items ("array"), an object whose
\* results is an array of items ("results"), an item ("object"), or the JSON
\* value null ("null"), of which data.results cannot be read.
fetchJSON(resp, array, first, count, curTotal) ==
    LET none == [threw |-> FALSE, err |-> NoErr, list |-> List(<<>>),
                 item |-> Undefined, total |-> curTotal]
    IN  CASE resp.kind = "neterr" ->
               [none EXCEPT !.threw = TRUE, !.err = NetErr]
          [] resp.kind = "204" -> none
          [] resp.kind = "error" ->
               [none EXCEPT !.threw = TRUE, !.err = resp.err]
          [] resp.kind = "ok" /\ resp.shape = "null" ->
               [none EXCEPT !.threw = TRUE, !.err = TypeErr]
          [] OTHER ->
               LET tot == IF count /\ HasPageTotalProperty
                          THEN (IF resp.total > 0 THEN resp.total ELSE 0)
                          ELSE curTotal
                   seqlike == resp.shape \in {"array", "results"}
               IN  IF array
                   THEN [none EXCEPT !.total = tot,
                            !.list = IF seqlike THEN List(resp.items)
                                     ELSE List(<<>>)]
                   ELSE [none EXCEPT !.total = tot,
                            !.item = IF resp.items = <<>> THEN Undefined
                                     ELSE resp.items[1]]

\* ------------------------------------------------------------------------
\* The helpers on arbitrary values.  Text is a sequence of characters, so
\* that splitting, joining, trimming and parsing are computed; a string
\* value is Txt(text), a number Num(digits), an array of strings
\* Arr(<<text, ...>>), a plain object Obj(f) with f a function from its own
\* keys to values.
\* ------------------------------------------------------------------------
JNull == [t |-> "null", v |-> ""]
Txt(text) == [t |-> "text", v |-> text]
Arr(elems) == [t |-> "arr", v |-> elems]
Obj(f) == [t |-> "obj", v |-> f]
NoProps == [k \in {} |-> Absent]
Put(f, k, x) == [y \in DOMAIN f \cup {k} |-> IF y = k THEN x ELSE f[y]]

\* x == undefined
Nullish(x) == x.t \in {"absent", "null"}
\* x[k] of anything but null and undefined
Prop(x, k) == IF x.t = "obj" /\ k \in DOMAIN x.v THEN x.v[k] ELSE Absent

Found(x) == [threw |-> FALSE, value |-> x]
Threw(x) == [threw |-> TRUE, value |-> x]

\* the loop of deepFind over path.split('.')
RECURSIVE Descend(_, _)
Descend(cursor, parts) ==
    IF parts = <<>> THEN Found(cursor)
    ELSE IF Nullish(cursor) THEN Threw(TypeErr)
    ELSE IF Nullish(Prop(cursor, Head(parts))) THEN Found(Absent)
    ELSE Descend(Prop(cursor, Head(parts)), Tail(parts))

\* static deepFind(obj, path), parts = path.split('.')
deepFind(obj, parts) ==
    IF Nullish(obj) THEN Threw(TypeErr)
    ELSE IF Len(parts) = 1 THEN Found(Prop(obj, parts[1]))
    ELSE Descend(obj, parts)

\* static deepSet(obj, path, value), parts = path.split('.').  Assigning a
\* property of null or undefined raises, and so does, in the strict code of
\* a class body, assigning a property of a number or a string.
RECURSIVE deepSet(_, _, _)
deepSet(obj, parts, value) ==
    IF obj.t # "obj" THEN [threw |-> TRUE, obj |-> obj]
    ELSE IF Len(parts) = 1
    THEN [threw |-> FALSE, obj |-> Obj(Put(obj.v, parts[1], value))]
    ELSE LET field == Head(parts)
             child == IF Prop(obj, field).t = "absent" THEN Obj(NoProps)
                      ELSE Prop(obj, field)
             r == deepSet(child, Tail(parts), value)
         IN  [threw |-> r.threw, obj |-> Obj(Put(obj.v, field, r.obj))]

\* l.trim().length = 0
Whitespace == {" ", "\n"}
IsBlank(text) == \A i \in DOMAIN text : text[i] \in Whitespace

\* text.split('\n')
RECURSIVE SplitLines(_)
SplitLines(text) ==
    IF \A i \in DOMAIN text : text[i] # "\n" THEN <<text>>
    ELSE LET k == CHOOSE i \in DOMAIN text :
                     /\ text[i] = "\n"
                     /\ \A j \in 1..(i - 1) : text[j] # "\n"
         IN  <<SubSeq(text, 1, k - 1)>>
             \o SplitLines(SubSeq(text, k + 1, Len(text)))

\* elems.join(sep)
RECURSIVE JoinWith(_, _)
JoinWith(elems, sep) ==
    IF elems = <<>> THEN <<>>
    ELSE IF Len(elems) = 1 THEN elems[1]
    ELSE elems[1] \o sep \o JoinWith(Tail(elems), sep)

\* field.value.split('\n').filter(l => l.trim().length)
ReadArrayFieldKeepBlank(text) == SplitLines(text)
ReadArrayField(text) ==
    SelectSeq(SplitLines(text), LAMBDA l : ~IsBlank(l))

\* what a control's value attribute holds after x is assigned to it
DomText(x) ==
    CASE x.t = "text" -> x.v
      [] x.t = "num" -> x.v
      [] x.t = "null" -> <<>>
      [] x.t = "absent" -> <<"u", "n", "d", "e", "f", "i", "n", "e", "d">>
      [] x.t = "arr" -> JoinWith(x.v, <<",">>)
      [] OTHER -> <<"[", "o", "b", "j", "e", "c", "t", " ",
                    "O", "b", "j", "e", "c", "t", "]">>

\* Array.isArray(val) ? val.join('\n') : val
WriteArrayField(val) ==
    IF val.t = "arr" THEN JoinWith(val.v, <<"\n">>) ELSE DomText(val)

\* JSON.parse(text) on the texts explored: surrounded by optional
\* whitespace, the literal null, a number, a string without escapes, {} or
\* [] parse; every other text explored is not JSON.
Digits == {"0", "1", "2", "3", "4", "5", "6", "7", "8", "9"}
RECURSIVE StripLeft(_)
StripLeft(text) ==
    IF text # <<>> /\ Head(text) \in Whitespace THEN StripLeft(Tail(text))
    ELSE text
RECURSIVE StripRight(_)
StripRight(text) ==
    IF text # <<>> /\ text[Len(text)] \in Whitespace
    THEN StripRight(SubSeq(text, 1, Len(text) - 1))
    ELSE text
JSONparse(text) ==
    LET t == StripRight(StripLeft(text))
        n == Len(t)
    IN  CASE t = <<"n", "u", "l", "l">> -> [ok |-> TRUE, value |-> JNull]
          [] /\ n > 0
             /\ \A i \in 1..n : t[i] \in Digits
             /\ (n = 1 \/ t[1] # "0") -> [ok |-> TRUE, value |-> Num(t)]
          [] /\ n >= 2
             /\ t[1] = "\"" /\ t[n] = "\""
             /\ \A i \in 2..(n - 1) : t[i] \notin {"\"", "\\", "\n"} ->
               [ok |-> TRUE, value |-> Txt(SubSeq(t, 2, n - 1))]
          [] t = <<"{", "}">> -> [ok |-> TRUE, value |-> Obj(NoProps)]
          [] t = <<"[", "]">> -> [ok |-> TRUE, value |-> Arr(<<>>)]
          [] OTHER -> [ok |-> FALSE, value |-> Absent]

\* JSON.stringify(val, null, 2) of undefined, null, a number, a string, an
\* array of strings or an empty object
RECURSIVE Escape(_)
Escape(text) ==
    IF text = <<>> THEN <<>>
    ELSE (CASE Head(text) = "\n" -> <<"\\", "n">>
            [] Head(text) \in {"\"", "\\"} -> <<"\\", Head(text)>>
            [] OTHER -> <<Head(text)>>) \o Escape(Tail(text))
Quote(text) == <<"\"">> \o Escape(text) \o <<"\"">>
JSONstringify(val) ==
    CASE val.t = "absent" -> Absent
      [] val.t = "null" -> Txt(<<"n", "u", "l", "l">>)
      [] val.t = "num" -> Txt(val.v)
      [] val.t = "text" -> Txt(Quote(val.v))
      [] val.t = "arr" /\ val.v = <<>> -> Txt(<<"[", "]">>)
      [] val.t = "arr" /\ val.v # <<>> ->
           Txt(<<"[", "\n", " ", " ">>
               \o JoinWith([i \in DOMAIN val.v |-> Quote(val.v[i])],
                           <<",", "\n", " ", " ">>)
               \o <<"\n", "]">>)
      [] val.t = "obj" /\ val.v = NoProps -> Txt(<<"{", "}">>)

\* A control of the form: a text input or a textarea, possibly of class
\* formatJSON or formatArray.  name is field.name.split('.'), so that the
\* name of a control without a name attribute is <<"">>.
Control(name, disabled, format, value) ==
    [name |-> name, disabled |-> disabled, format |-> format,
     value |-> value]
Named(c) == c.name # <<"">>

\* the value _readFormFields assigns for one control
FieldValue(c) ==
    CASE c.format = "formatJSON" ->
           LET r == JSONparse(c.value)
           IN  IF r.ok THEN r.value ELSE Txt(c.value)
      [] c.format = "formatArray" -> Arr(ReadArrayField(c.value))
      [] OTHER -> Txt(c.value)

\* the loop of _readFormFields
RECURSIVE ReadIntoDisabled(_, _)
ReadIntoDisabled(controls, obj) ==
    IF controls = <<>> THEN [threw |-> FALSE, obj |-> obj]
    ELSE LET c == Head(controls)
         IN  IF ~Named(c) THEN ReadIntoDisabled(Tail(controls), obj)
             ELSE LET r == deepSet(obj, c.name, FieldValue(c))
                  IN  IF r.threw THEN r
                      ELSE ReadIntoDisabled(Tail(controls), r.obj)
RECURSIVE ReadInto(_, _)
ReadInto(controls, obj) ==
    IF controls = <<>> THEN [threw |-> FALSE, obj |-> obj]
    ELSE LET c == Head(controls)
         IN  IF ~Named(c) \/ c.disabled THEN ReadInto(Tail(controls), obj)
             ELSE LET r == deepSet(obj, c.name, FieldValue(c))
                  IN  IF r.threw THEN r
                      ELSE ReadInto(Tail(controls), r.obj)

\* _readFormFields() on any form
ReadControls(controls) == ReadInto(controls, Obj(NoProps))

\* the body of the loop of _writeFormFields(obj)
WriteControl(c, obj) ==
    LET val == deepFind(obj, c.name).value
    IN  IF ~Named(c) THEN c
        ELSE [c EXCEPT !.value =
                 CASE c.format = "formatJSON" -> DomText(JSONstringify(val))
                   [] c.format = "formatArray" -> WriteArrayField(val)
                   [] OTHER -> IF Nullish(val) THEN <<>> ELSE DomText(val)]

\* _writeFormFields(obj) on any form
WriteControls(controls, obj) ==
    [i \in DOMAIN controls |-> WriteControl(controls[i], obj)]

\* ------------------------------------------------------------------------
\* Action invocations.  A task is one running async action: its position
\* (pc), its locals, and the sequence of events it has produced (trace).
\* ------------------------------------------------------------------------
\* Two invocations can be in flight: a gesture does not wait for the
\* previous action to finish
Slots == {1, 2}

Ev(e, a, b, n) == [e |-> e, a |-> a, b |-> b, n |-> n]
Req(method, url, page) == [method |-> method, url |-> url, page |-> page]
NoReq == Req("", "", -1)
NoBody == [n \in {} |-> ""]

IdleTask == [act |-> "none", pc |-> "idle", arg |-> Absent, fidv |-> "",
             req |-> NoReq, saveData |-> NoBody, item |-> Undefined,
             formItem |-> Undefined, data |-> List(<<>>), trace |-> <<>>,
             caught |-> NoErr, out |-> ""]
NewTask(act, arg) == [IdleTask EXCEPT !.act = act, !.arg = arg]

Free(t) == tasks[t].pc \in {"idle", "done"}
Log(tk, ev) == [tk EXCEPT !.trace = Append(@, ev)]
Done(tk, out) == [tk EXCEPT !.pc = "done", !.out = out,
                            !.data = List(<<>>), !.formItem = Undefined]

\* Values a bound hook may hand back
SearchTerms == {Str("q1"), Str("")}
TableReplacements == {List(<<ItemB>>), NotAList}
FormReplacements == {ItemB}
SaveReplacements == {[name |-> "Hooked"]}
DeleteReplacements == {Str("2"), Str("")}
SelectArgs == {Absent, Str("1"), Str("2")}
NameInputs == {"Foo", ""}
SearchInputs == {"", "q0"}

\* hooks the README documents as receiving a meta object
MetaHooks == {"preSearch", "preSave", "preDelete"}
Outcomes(name) ==
    IF name \in hooks
    THEN {"none", "value", "raise"}
         \cup (IF name \in MetaHooks THEN {"meta"} ELSE {})
    ELSE {"absent"}
PostOutcomes(name) == IF name \in hooks THEN {"none", "raise"}
                      ELSE {"absent"}

\* hook(data) is called only when a function is bound
CallHook(tk, name) ==
    IF name \in hooks THEN Log(tk, Ev("call", name, "", -1)) ELSE tk
\* the awaited hook settles
Settle(tk, name, o, b) ==
    IF o = "absent" THEN tk
    ELSE IF o = "raise" THEN Log(tk, Ev("raise", name, "", -1))
    ELSE IF o = "meta"
         THEN Log(Log(tk, Ev("meta", name, "", -1)), Ev("raise", name, "", -1))
    ELSE Log(tk, Ev("ret", name, IF o = "value" THEN b ELSE "",
                    IF o = "value" THEN 1 ELSE 0))

\* _updateTable up to its first await
EnterUpdateTable(tk) == CallHook([tk EXCEPT !.pc = "T_hook"], "preSearch")

\* _updateForm({item, id}) up to its first await
EnterUpdateForm(tk, item, id) ==
    IF ~item.def /\ Truthy(id)
    THEN LET url == EndpointBase \o "/" \o DomString(id)
         IN  Log([tk EXCEPT !.pc = "F_fetch", !.req = Req("GET", url, -1)],
                 Ev("req", "GET", url, -1))
    ELSE CallHook([tk EXCEPT !.pc = "F_pre",
                      !.formItem = IF item.def THEN item ELSE EmptyItem],
                  "preUpdateForm")

\* catch (err) { this._updateStatus(text, err); throw err } of an inner
\* function, then the catch of the action (none around the constructor's
\* initial _updateTable)
AbortWith(t, tk, text, err) ==
    /\ status' = UpdateStatus(status, text, err).status
    /\ tasks' = [tasks EXCEPT ![t] =
           Done(Log([tk EXCEPT !.caught = err], Ev("abort", text, "", -1)),
                IF tk.act = "init" THEN "unhandled" ELSE "caught")]

\* the last _updateStatus of an action
FinishWith(t, tk, text, detail) ==
    LET r == UpdateStatus(status, text, detail)
    IN  /\ status' = r.status
        /\ tasks' = [tasks EXCEPT ![t] =
               Done(tk, IF r.threw THEN "caught" ELSE "ok")]

\* Bounds of the exploration: the number of pages the user pages forward
MaxPages == 3
MaxOffset == MaxPages * PageIncrement

\* ------------------------------------------------------------------------
\* Initial state: the constructor has bound everything and has run its
\* call of _updateTable() up to the first await.
\* ------------------------------------------------------------------------
Working == Status("Working...", "")

\* The entry points and gesture handlers the constructor binds
Bindings == {"easySelect", "easyCreate", "easyDelete", "easySearch",
             "easyNextPage", "easyPreviousPage", "onsubmit", "onreset",
             "onkeyup", "deleteClick", "createClick", "pageNextClick",
             "pagePreviousClick"}

\* What can be wrong with the constructor's argument, in the order in which
\* the constructor tests it, and what it throws
CheckOrder == <<"endpoint", "tableElement", "tableFields", "formElement",
                "tbody", "idControl", "headers">>
Defects == {CheckOrder[i] : i \in DOMAIN CheckOrder}
ValidationMessage(defect) ==
    CASE defect = "endpoint" ->
           "Invalid endpoint passed to RESTeasy: must be non-empty string"
      [] defect = "tableElement" ->
           "Invalid tableElement passed to RESTeasy: must be a <table> object"
      [] defect = "tableFields" ->
           "Invalid tableFields passed to RESTeasy: must be an array"
      [] defect = "formElement" ->
           "Invalid endpoint passed to RESTeasy: must be a <form> object"
      [] defect = "tbody" ->
           "tableElement passed to RESTeasy is missing <tbody>"
      [] defect = "idControl" ->
           "formElement passed to RESTeasy is missing <input name=[idField]>"
      [] OTHER -> "headers passed to RESTeasy was not an object"
FirstDefect(config) ==
    CheckOrder[CHOOSE i \in DOMAIN CheckOrder :
                  /\ CheckOrder[i] \in config
                  /\ \A j \in 1..(i - 1) : CheckOrder[j] \notin config]

Engine(state, config, error, bound) ==
    [state |-> state, config |-> config, error |-> error, bound |-> bound]
Ready == Engine("ready", {}, "", Bindings)
Bound(b) == b \in engine.bound

\* No pure helper is being evaluated
NoCall == [fn |-> "none"]
\* fn is about to be applied to args; out becomes <<result>>
Call(fn, args) == [fn |-> fn, args |-> args, out |-> <<>>]

Built ==
    /\ engine = Ready
    /\ hooks \in HookConfigs
    /\ search = ""
    /\ form = [n \in FormFields |-> [value |-> "", invalid |-> FALSE]]
    /\ rows = <<>>
    /\ status = Status("", "")
    /\ pageNumber = 0
    /\ pageTotal = 0
    /\ pager = [cur |-> 0, tot |-> 0, nextDisabled |-> FALSE,
                prevDisabled |-> FALSE]
    /\ tasks = [t \in Slots |->
                   IF t = 1 THEN EnterUpdateTable(NewTask("init", Absent))
                   ELSE IdleTask]

Init == call = NoCall /\ Built

\* Before `new RESTeasy(config)`: nothing of the engine exists yet; the page
\* object holds the surfaces, the argument holds any subset of the defects
Unbuilt(config) == Engine("none", config, "", {})
InitUnbuilt ==
    /\ engine \in {Unbuilt(config) : config \in SUBSET Defects}
    /\ call = NoCall
    /\ hooks \in HookConfigs
    /\ search = ""
    /\ form = [n \in FormFields |-> [value |-> "", invalid |-> FALSE]]
    /\ rows = <<>>
    /\ status = Status("", "")
    /\ pageNumber = -1
    /\ pageTotal = -1
    /\ pager = [cur |-> 0, tot |-> 0, nextDisabled |-> FALSE,
                prevDisabled |-> FALSE]
    /\ tasks = [t \in Slots |-> IdleTask]

ConstructBindsFirst ==
    /\ engine.state = "none"
    /\ IF engine.config # {}
       THEN /\ engine' = Engine("raised", engine.config,
                                ValidationMessage(FirstDefect(engine.config)),
                                Bindings)
            /\ UNCHANGED <<pageNumber, pageTotal, tasks>>
       ELSE /\ engine' = Ready
            /\ pageNumber' = 0
            /\ pageTotal' = 0
            /\ tasks' = [tasks EXCEPT
                            ![1] = EnterUpdateTable(NewTask("init", Absent))]
    /\ UNCHANGED <<call, hooks, search, form, rows, status, pager>>

\* new RESTeasy(config): the checks, then the bindings, then the state and
\* the first _updateTable() up to its first await
Construct ==
    /\ engine.state = "none"
    /\ IF engine.config # {}
       THEN /\ engine' = Engine("raised", engine.config,
                                ValidationMessage(FirstDefect(engine.config)),
                                {})
            /\ UNCHANGED <<pageNumber, pageTotal, tasks>>
       ELSE /\ engine' = Ready
            /\ pageNumber' = 0
            /\ pageTotal' = 0
            /\ tasks' = [tasks EXCEPT
                            ![1] = EnterUpdateTable(NewTask("init", Absent))]
    /\ UNCHANGED <<call, hooks, search, form, rows, status, pager>>

\* ------------------------------------------------------------------------
\* The actions' entry points, each up to its first await
\* ------------------------------------------------------------------------
\* the user types into the name control of the form
EditName(v) ==
    /\ form[NameField].value # v
    /\ form' = [form EXCEPT ![NameField].value = v]
    /\ UNCHANGED <<engine, call, hooks, search, rows, status, pageNumber, pageTotal, pager,
                   tasks>>

\* the user types into the search box (searchElement.value); the keyup
\* handler then runs actionSearch
EditSearch(v) ==
    /\ search # v
    /\ search' = v
    /\ UNCHANGED <<engine, call, hooks, form, rows, status, pageNumber,
                   pageTotal, pager, tasks>>

actionSearchKeepOffset(t) ==
    /\ Free(t)
    /\ status' = Status("Searching...", "")
    /\ tasks' = [tasks EXCEPT ![t] = EnterUpdateTable(NewTask("search", Absent))]
    /\ UNCHANGED <<engine, call, hooks, search, form, rows, pageNumber, pageTotal, pager>>
actionSearchCancelsOthers(t) ==
    /\ Free(t)
    /\ status' = Status("Searching...", "")
    /\ pageNumber' = 0
    /\ tasks' = [u \in Slots |->
                    IF u = t THEN EnterUpdateTable(NewTask("search", Absent))
                    ELSE IF Free(u) THEN tasks[u]
                    ELSE Done(tasks[u], "cancelled")]
    /\ UNCHANGED <<engine, call, hooks, search, form, rows, pageTotal, pager>>
actionSearch(t) ==
    /\ Free(t)
    /\ status' = Status("Searching...", "")
    /\ pageNumber' = 0
    /\ tasks' = [tasks EXCEPT ![t] = EnterUpdateTable(NewTask("search", Absent))]
    /\ UNCHANGED <<engine, call, hooks, search, form, rows, pageTotal, pager>>

actionNextPage(t) ==
    /\ Free(t)
    /\ pageNumber + PageIncrement <= MaxOffset
    /\ pageNumber' = pageNumber + PageIncrement
    /\ tasks' = [tasks EXCEPT ![t] = EnterUpdateTable(NewTask("next", Absent))]
    /\ UNCHANGED <<engine, call, hooks, search, form, rows, status, pageTotal, pager>>

actionPreviousPageNoClamp(t) ==
    /\ Free(t)
    /\ pageNumber' = pageNumber - PageIncrement
    /\ tasks' = [tasks EXCEPT ![t] = EnterUpdateTable(NewTask("prev", Absent))]
    /\ UNCHANGED <<engine, call, hooks, search, form, rows, status, pageTotal, pager>>
actionPreviousPage(t) ==
    /\ Free(t)
    /\ pageNumber' = IF pageNumber - PageIncrement < 0 THEN 0
                     ELSE pageNumber - PageIncrement
    /\ tasks' = [tasks EXCEPT ![t] = EnterUpdateTable(NewTask("prev", Absent))]
    /\ UNCHANGED <<engine, call, hooks, search, form, rows, status, pageTotal, pager>>

actionSelect(t, id) ==
    /\ Free(t)
    /\ status' = Working
    /\ rows' = UpdateSelected(rows, id)
    /\ tasks' = [tasks EXCEPT ![t] =
                    EnterUpdateForm(NewTask("select", id), Undefined, id)]
    /\ UNCHANGED <<engine, call, hooks, search, form, pageNumber, pageTotal, pager>>

actionDelete(t) ==
    /\ Free(t)
    /\ status' = Working
    /\ tasks' = [tasks EXCEPT ![t] =
           CallHook([NewTask("delete", Absent) EXCEPT
                        !.pc = "D_pre", !.fidv = form[IdField].value],
                    "preDelete")]
    /\ UNCHANGED <<engine, call, hooks, search, form, rows, pageNumber, pageTotal, pager>>

actionCreateKeepSelection(t) ==
    /\ Free(t)
    /\ status' = Working
    /\ tasks' = [tasks EXCEPT ![t] =
                    EnterUpdateForm(NewTask("create", Absent), Undefined, Absent)]
    /\ UNCHANGED <<engine, call, hooks, search, form, rows, pageNumber, pageTotal, pager>>
actionCreate(t) ==
    /\ Free(t)
    /\ status' = Working
    /\ rows' = UpdateSelected(rows, Absent)
    /\ tasks' = [tasks EXCEPT ![t] =
                    EnterUpdateForm(NewTask("create", Absent), Undefined, Absent)]
    /\ UNCHANGED <<engine, call, hooks, search, form, pageNumber, pageTotal, pager>>

\* _save up to await _doHook(preSave): method and URL from fid.value
SaveRequestAlwaysPost(fid) == Req("POST", EndpointBase, -1)
SaveRequest(fid) ==
    IF fid # "" THEN Req("PUT", EndpointBase \o "/" \o fid, -1)
    ELSE Req("POST", EndpointBase, -1)

actionSave(t) ==
    /\ Free(t)
    /\ status' = Working
    /\ tasks' = [tasks EXCEPT ![t] =
           CallHook([NewTask("save", Absent) EXCEPT
                        !.pc = "S_pre", !.fidv = form[IdField].value,
                        !.req = SaveRequest(form[IdField].value),
                        !.saveData = ReadFormFields(form)],
                    "preSave")]
    /\ UNCHANGED <<engine, call, hooks, search, form, rows, pageNumber, pageTotal, pager>>

actionReset(t) ==
    /\ Free(t)
    /\ status' = Working
    /\ tasks' = [tasks EXCEPT ![t] =
           EnterUpdateForm([NewTask("reset", Absent) EXCEPT
                               !.fidv = form[IdField].value],
                           Undefined, Str(form[IdField].value))]
    /\ UNCHANGED <<engine, call, hooks, search, form, rows, pageNumber, pageTotal, pager>>


\* ------------------------------------------------------------------------
\* What each action does after an inner function has returned
\* ------------------------------------------------------------------------
\* after await this._updateTable()
AfterUpdateTable(t, tk) ==
    CASE tk.act = "search" ->
           /\ FinishWith(t, tk, "", Absent)
           /\ rows' = rows
      [] tk.act = "delete" ->
           /\ tasks' = [tasks EXCEPT ![t] =
                           EnterUpdateForm(tk, Undefined, Absent)]
           /\ UNCHANGED <<status, rows>>
      [] tk.act = "save" ->
           /\ rows' = UpdateSelected(rows, tk.item.id)
           /\ FinishWith(t, tk, "Item saved\nEditing existing item",
                         Or(DeepFind(tk.item, NameField),
                            DeepFind(tk.item, IdField)))
      [] OTHER ->
           /\ tasks' = [tasks EXCEPT ![t] = Done(tk, "ok")]
           /\ UNCHANGED <<status, rows>>

\* after await this._updateForm(...), which returned item
AfterUpdateForm(t, tk, item) ==
    CASE tk.act = "select" ->
           FinishWith(t, [tk EXCEPT !.item = item], "Editing existing item",
                      Or(DeepFind(item, NameField), tk.arg))
      [] tk.act = "reset" ->
           \* item !== {} compares references: always true
           FinishWith(t, [tk EXCEPT !.item = item], "Editing existing item",
                      Or(DeepFind(item, NameField), DeepFind(item, IdField)))
      [] tk.act = "create" -> FinishWith(t, tk, "Editing new item", Absent)
      [] tk.act = "delete" -> FinishWith(t, tk, "Item deleted", Absent)
      [] OTHER ->
           /\ tasks' = [tasks EXCEPT ![t] = EnterUpdateTable(tk)]
           /\ status' = status

\* after const item = await this._save()
AfterSave(t, tk) ==
    IF tk.item.def
    THEN tasks' = [tasks EXCEPT ![t] = EnterUpdateForm(tk, tk.item, Absent)]
    ELSE tasks' = [tasks EXCEPT ![t] = Done(tk, "ok")]

\* ------------------------------------------------------------------------
\* _updateTable
\* ------------------------------------------------------------------------
ListUrl(term) ==
    IF Truthy(term) THEN EndpointUrl \o "&q=" \o DomString(term)
    ELSE EndpointUrl

\* preSearch has settled; the query is built and the request sent
PreSearchReturns(t, o, ret) ==
    /\ tasks[t].pc = "T_hook"
    /\ o \in Outcomes("preSearch")
    /\ LET h == DoHook(o, Truthy(ret), ret, Str(search))
             tk == Settle(tasks[t], "preSearch", o, ret.v)
             page == IF HasPageNumberParam THEN pageNumber ELSE -1
             url == ListUrl(h.value)
         IN  IF h.raised
             THEN AbortWith(t, tk, "Failed to load items", h.err)
             ELSE /\ tasks' = [tasks EXCEPT ![t] =
                        Log([tk EXCEPT !.pc = "T_fetch",
                                       !.req = Req("GET", url, page)],
                            Ev("req", "GET", url, page))]
                  /\ status' = status
    /\ UNCHANGED <<engine, call, hooks, search, form, rows, pageNumber, pageTotal, pager>>

\* the listing response is in; preUpdateTable is called
ListResponse(t, resp) ==
    /\ tasks[t].pc = "T_fetch"
    /\ LET r == fetchJSON(resp, TRUE, FALSE, TRUE, pageTotal)
         IN  IF r.threw
             THEN /\ AbortWith(t, Log(tasks[t], Ev("resp", "fail", resp.kind, -1)),
                               "Failed to load items", r.err)
                  /\ pageTotal' = pageTotal
             ELSE /\ pageTotal' = r.total
                  /\ tasks' = [tasks EXCEPT ![t] =
                        CallHook([Log(tasks[t], Ev("resp", "ok", "", -1))
                                    EXCEPT !.pc = "T_pre", !.data = r.list],
                                 "preUpdateTable")]
                  /\ status' = status
    /\ UNCHANGED <<engine, call, hooks, search, form, rows, pageNumber, pager>>

PreUpdateTableReturnsAppends(t, o, ret) ==
    /\ tasks[t].pc = "T_pre"
    /\ o \in Outcomes("preUpdateTable")
    /\ LET h == DoHook(o, TRUE, ret, tasks[t].data)
             tk == Settle(tasks[t], "preUpdateTable", o, "data")
         IN  IF h.raised
             THEN /\ AbortWith(t, tk, "Failed to load items", h.err)
                  /\ rows' = rows
             ELSE IF ~h.value.iter
             THEN /\ rows' = <<>>
                  /\ AbortWith(t, Log(tk, Ev("write", "table", "fail", -1)),
                               "Failed to load items", NotIterable)
             ELSE /\ rows' = rows \o RenderRows(h.value.items)
                  /\ tasks' = [tasks EXCEPT ![t] =
                        CallHook([Log(tk, Ev("write", "table", "ok", -1))
                                    EXCEPT !.pc = "T_post", !.data = h.value],
                                 "postUpdateTable")]
                  /\ status' = status
    /\ UNCHANGED <<engine, call, hooks, search, form, pageNumber, pageTotal, pager>>

\* preUpdateTable has settled; the table body is replaced
PreUpdateTableReturns(t, o, ret) ==
    /\ tasks[t].pc = "T_pre"
    /\ o \in Outcomes("preUpdateTable")
    /\ LET h == DoHook(o, TRUE, ret, tasks[t].data)
             tk == Settle(tasks[t], "preUpdateTable", o, "data")
         IN  IF h.raised
             THEN /\ AbortWith(t, tk, "Failed to load items", h.err)
                  /\ rows' = rows
             ELSE IF ~h.value.iter
             THEN \* tbody is emptied, then for (let item of data) raises
                  /\ rows' = <<>>
                  /\ AbortWith(t, Log(tk, Ev("write", "table", "fail", -1)),
                               "Failed to load items", NotIterable)
             ELSE /\ rows' = RenderRows(h.value.items)
                  /\ tasks' = [tasks EXCEPT ![t] =
                        CallHook([Log(tk, Ev("write", "table", "ok", -1))
                                    EXCEPT !.pc = "T_post", !.data = h.value],
                                 "postUpdateTable")]
                  /\ status' = status
    /\ UNCHANGED <<engine, call, hooks, search, form, pageNumber, pageTotal, pager>>

\* postUpdateTable has settled; pagination status, then back in the action
PostUpdateTableReturns(t, o) ==
    /\ tasks[t].pc = "T_post"
    /\ o \in PostOutcomes("postUpdateTable")
    /\ LET h == DoHook(o, FALSE, tasks[t].data, tasks[t].data)
             tk == Settle(tasks[t], "postUpdateTable", o, "")
         IN  IF h.raised
             THEN /\ AbortWith(t, tk, "Failed to load items", h.err)
                  /\ UNCHANGED <<rows, pager>>
             ELSE /\ pager' = UpdatePager(pager, pageNumber, pageTotal)
                  /\ AfterUpdateTable(t, tk)
    /\ UNCHANGED <<engine, call, hooks, search, form, pageNumber, pageTotal>>

\* ------------------------------------------------------------------------
\* _updateForm
\* ------------------------------------------------------------------------
\* the find-by-id response is in; preUpdateForm is called
FindResponseCounts(t, resp) ==
    /\ tasks[t].pc = "F_fetch"
    /\ LET r == fetchJSON(resp, FALSE, TRUE, TRUE, pageTotal)
         IN  IF r.threw
             THEN /\ AbortWith(t, Log(tasks[t], Ev("resp", "fail", resp.kind, -1)),
                               "Failed to load item", r.err)
                  /\ pageTotal' = pageTotal
             ELSE /\ tasks' = [tasks EXCEPT ![t] =
                        CallHook([Log(tasks[t], Ev("resp", "ok", "", -1))
                                    EXCEPT !.pc = "F_pre",
                                       !.formItem = IF r.item.def THEN r.item
                                                    ELSE EmptyItem],
                                 "preUpdateForm")]
                  /\ status' = status
                  /\ pageTotal' = r.total
    /\ UNCHANGED <<engine, call, hooks, search, form, rows, pageNumber, pager>>

FindResponse(t, resp) ==
    /\ tasks[t].pc = "F_fetch"
    /\ LET r == fetchJSON(resp, FALSE, TRUE, FALSE, pageTotal)
         IN  IF r.threw
             THEN AbortWith(t, Log(tasks[t], Ev("resp", "fail", resp.kind, -1)),
                            "Failed to load item", r.err)
             ELSE /\ tasks' = [tasks EXCEPT ![t] =
                        CallHook([Log(tasks[t], Ev("resp", "ok", "", -1))
                                    EXCEPT !.pc = "F_pre",
                                       !.formItem = IF r.item.def THEN r.item
                                                    ELSE EmptyItem],
                                 "preUpdateForm")]
                  /\ status' = status
    /\ UNCHANGED <<engine, call, hooks, search, form, rows, pageNumber, pageTotal, pager>>

\* preUpdateForm has settled; the form is written, highlights cleared
PreUpdateFormReturns(t, o, ret) ==
    /\ tasks[t].pc = "F_pre"
    /\ o \in Outcomes("preUpdateForm")
    /\ LET h == DoHook(o, TRUE, ret, tasks[t].formItem)
             tk == Settle(tasks[t], "preUpdateForm", o, "item")
         IN  IF h.raised
             THEN /\ AbortWith(t, tk, "Failed to load item", h.err)
                  /\ form' = form
             ELSE /\ form' = HighlightErrors(WriteFormFields(form, h.value), {})
                  /\ tasks' = [tasks EXCEPT ![t] =
                        CallHook([Log(tk, Ev("write", "form", "ok", -1))
                                    EXCEPT !.pc = "F_post",
                                           !.formItem = h.value],
                                 "postUpdateForm")]
                  /\ status' = status
    /\ UNCHANGED <<engine, call, hooks, search, rows, pageNumber, pageTotal, pager>>

\* postUpdateForm has settled; back in the action
PostUpdateFormReturns(t, o) ==
    /\ tasks[t].pc = "F_post"
    /\ o \in PostOutcomes("postUpdateForm")
    /\ LET h == DoHook(o, FALSE, tasks[t].formItem, tasks[t].formItem)
             tk == Settle(tasks[t], "postUpdateForm", o, "")
         IN  IF h.raised
             THEN AbortWith(t, tk, "Failed to load item", h.err)
             ELSE AfterUpdateForm(t, tk, tk.formItem)
    /\ UNCHANGED <<engine, call, hooks, search, form, rows, pageNumber, pageTotal, pager>>


\* ------------------------------------------------------------------------
\* _save
\* ------------------------------------------------------------------------
\* preSave has settled; the write request is sent
PreSaveReturnsRereadsIdentity(t, o, ret) ==
    /\ tasks[t].pc = "S_pre"
    /\ o \in Outcomes("preSave")
    /\ LET h == DoHook(o, TRUE, ret, tasks[t].saveData)
             tk == Settle(tasks[t], "preSave", o, "data")
             req == SaveRequest(form[IdField].value)
         IN  IF h.raised
             THEN AbortWith(t, tk, "Item not saved", h.err)
             ELSE /\ tasks' = [tasks EXCEPT ![t] =
                        Log([tk EXCEPT !.pc = "S_fetch", !.saveData = h.value,
                                       !.req = req],
                            Ev("req", req.method, req.url, -1))]
                  /\ status' = status
    /\ UNCHANGED <<engine, call, hooks, search, form, rows, pageNumber, pageTotal, pager>>
PreSaveReturns(t, o, ret) ==
    /\ tasks[t].pc = "S_pre"
    /\ o \in Outcomes("preSave")
    /\ LET h == DoHook(o, TRUE, ret, tasks[t].saveData)
             tk == Settle(tasks[t], "preSave", o, "data")
         IN  IF h.raised
             THEN AbortWith(t, tk, "Item not saved", h.err)
             ELSE /\ tasks' = [tasks EXCEPT ![t] =
                        Log([tk EXCEPT !.pc = "S_fetch", !.saveData = h.value],
                            Ev("req", tk.req.method, tk.req.url, -1))]
                  /\ status' = status
    /\ UNCHANGED <<engine, call, hooks, search, form, rows, pageNumber, pageTotal, pager>>

\* the write response is in; on failure the named fields are highlighted,
\* on success postSave is called
SaveResponse(t, resp) ==
    /\ tasks[t].pc = "S_fetch"
    /\ LET r == fetchJSON(resp, FALSE, TRUE, FALSE, pageTotal)
         IN  IF r.threw
             THEN /\ form' = HighlightErrors(form, ErrorKeys(r.err))
                  /\ AbortWith(t, Log(tasks[t], Ev("resp", "fail", resp.kind, -1)),
                               "Item not saved", r.err)
             ELSE /\ form' = form
                  /\ tasks' = [tasks EXCEPT ![t] =
                        CallHook([Log(tasks[t], Ev("resp", "ok", "", -1))
                                    EXCEPT !.pc = "S_post", !.item = r.item],
                                 "postSave")]
                  /\ status' = status
    /\ UNCHANGED <<engine, call, hooks, search, rows, pageNumber, pageTotal, pager>>

\* postSave has settled; _save returns its result to actionSave
PostSaveReturns(t, o) ==
    /\ tasks[t].pc = "S_post"
    /\ o \in PostOutcomes("postSave")
    /\ LET h == DoHook(o, FALSE, tasks[t].item, tasks[t].item)
             tk == Settle(tasks[t], "postSave", o, "")
         IN  IF h.raised
             THEN AbortWith(t, tk, "Item not saved", h.err)
             ELSE /\ AfterSave(t, tk)
                  /\ status' = status
    /\ UNCHANGED <<engine, call, hooks, search, form, rows, pageNumber, pageTotal, pager>>

\* ------------------------------------------------------------------------
\* _deleteSelected
\* ------------------------------------------------------------------------
\* if (!id) throw 'Nothing selected'
NoIdentityNever(id) == FALSE
NoIdentityAlways(id) == TRUE
NoIdentity(id) == ~Truthy(id)

\* preDelete has settled; without an id the action raises, else DELETE
PreDeleteReturns(t, o, ret) ==
    /\ tasks[t].pc = "D_pre"
    /\ o \in Outcomes("preDelete")
    /\ LET h == DoHook(o, Truthy(ret), ret, Str(tasks[t].fidv))
             tk == Settle(tasks[t], "preDelete", o, ret.v)
             url == EndpointBase \o "/" \o DomString(h.value)
         IN  IF h.raised
             THEN AbortWith(t, tk, "Item not deleted", h.err)
             ELSE IF NoIdentity(h.value)
             THEN AbortWith(t, tk, "Item not deleted", NothingSelected)
             ELSE /\ tasks' = [tasks EXCEPT ![t] =
                        Log([tk EXCEPT !.pc = "D_fetch",
                                       !.req = Req("DELETE", url, -1)],
                            Ev("req", "DELETE", url, -1))]
                  /\ status' = status
    /\ UNCHANGED <<engine, call, hooks, search, form, rows, pageNumber, pageTotal, pager>>

\* the DELETE response is in; postDelete is called
DeleteResponse(t, resp) ==
    /\ tasks[t].pc = "D_fetch"
    /\ LET r == fetchJSON(resp, FALSE, TRUE, FALSE, pageTotal)
         IN  IF r.threw
             THEN AbortWith(t, Log(tasks[t], Ev("resp", "fail", resp.kind, -1)),
                            "Item not deleted", r.err)
             ELSE /\ tasks' = [tasks EXCEPT ![t] =
                        CallHook([Log(tasks[t], Ev("resp", "ok", "", -1))
                                    EXCEPT !.pc = "D_post"],
                                 "postDelete")]
                  /\ status' = status
    /\ UNCHANGED <<engine, call, hooks, search, form, rows, pageNumber, pageTotal, pager>>

PostDeleteReturnsSkipsReload(t, o) ==
    /\ tasks[t].pc = "D_post"
    /\ o \in PostOutcomes("postDelete")
    /\ LET h == DoHook(o, FALSE, Absent, Absent)
             tk == Settle(tasks[t], "postDelete", o, "")
         IN  IF h.raised
             THEN AbortWith(t, tk, "Item not deleted", h.err)
             ELSE /\ tasks' = [tasks EXCEPT
                                 ![t] = EnterUpdateForm(tk, Undefined, Absent)]
                  /\ status' = status
    /\ UNCHANGED <<engine, call, hooks, search, form, rows, pageNumber, pageTotal, pager>>

\* postDelete has settled; actionDelete goes on to _updateTable
PostDeleteReturns(t, o) ==
    /\ tasks[t].pc = "D_post"
    /\ o \in PostOutcomes("postDelete")
    /\ LET h == DoHook(o, FALSE, Absent, Absent)
             tk == Settle(tasks[t], "postDelete", o, "")
         IN  IF h.raised
             THEN AbortWith(t, tk, "Item not deleted", h.err)
             ELSE /\ tasks' = [tasks EXCEPT ![t] = EnterUpdateTable(tk)]
                  /\ status' = status
    /\ UNCHANGED <<engine, call, hooks, search, form, rows, pageNumber, pageTotal, pager>>

\* ------------------------------------------------------------------------
\* Steps of whatever action is in flight
\* ------------------------------------------------------------------------
HookReturns == {"absent", "none", "value", "raise", "meta"}

TableStep ==
    \/ \E t \in Slots, o \in HookReturns, ret \in SearchTerms :
          PreSearchReturns(t, o, ret)
    \/ \E t \in Slots, resp \in ListResponses : ListResponse(t, resp)
    \/ \E t \in Slots, o \in HookReturns, ret \in TableReplacements :
          PreUpdateTableReturns(t, o, ret)
    \/ \E t \in Slots, o \in HookReturns : PostUpdateTableReturns(t, o)

FormStep ==
    \/ \E t \in Slots, resp \in ItemResponses : FindResponse(t, resp)
    \/ \E t \in Slots, o \in HookReturns, ret \in FormReplacements :
          PreUpdateFormReturns(t, o, ret)
    \/ \E t \in Slots, o \in HookReturns : PostUpdateFormReturns(t, o)

SaveStep ==
    \/ \E t \in Slots, o \in HookReturns, ret \in SaveReplacements :
          PreSaveReturns(t, o, ret)
    \/ \E t \in Slots, resp \in SaveResponses : SaveResponse(t, resp)
    \/ \E t \in Slots, o \in HookReturns : PostSaveReturns(t, o)

DeleteStep ==
    \/ \E t \in Slots, o \in HookReturns, ret \in DeleteReplacements :
          PreDeleteReturns(t, o, ret)
    \/ \E t \in Slots, resp \in ItemResponses : DeleteResponse(t, resp)
    \/ \E t \in Slots, o \in HookReturns : PostDeleteReturns(t, o)

\* no action is in flight
Idle == \A t \in Slots : Free(t)

\* ------------------------------------------------------------------------
\* Editing: one action at a time, the listing stays on its first page and
\* the search box empty
\* ------------------------------------------------------------------------
Next ==
    \/ \E v \in NameInputs : Idle /\ EditName(v)
    \/ Idle /\ actionSearch(1)
    \/ \E id \in SelectArgs : Idle /\ actionSelect(1, id)
    \/ Idle /\ actionDelete(1)
    \/ Idle /\ actionCreate(1)
    \/ Idle /\ actionSave(1)
    \/ Idle /\ actionReset(1)
    \/ TableStep
    \/ FormStep
    \/ SaveStep
    \/ DeleteStep

\* ------------------------------------------------------------------------
\* Paging: searches and page navigation, one action at a time
\* ------------------------------------------------------------------------
NextPaging ==
    \/ \E v \in SearchInputs : Idle /\ EditSearch(v)
    \/ Idle /\ actionSearch(1)
    \/ Idle /\ actionNextPage(1)
    \/ Idle /\ actionPreviousPage(1)
    \/ TableStep

SpecPaging == Init /\ [][NextPaging]_vars

\* ------------------------------------------------------------------------
\* Interleaved paging: no hooks configured; a gesture may start an action
\* while another one is still waiting for its response
\* ------------------------------------------------------------------------
InitNoHooks == Init /\ hooks = {}

\* the slot a new invocation takes: the first free one
FirstFree(t) == Free(t) /\ \A u \in Slots : u < t => ~Free(u)

\* listing responses explored here: a failure and two different pages of
\* results
InterleavedResponses == {NetFail, Ok("results", <<ItemB, ItemA>>, 12),
                         Ok("array", <<ItemA>>, -1)}

NextInterleaved ==
    \/ \E t \in Slots : FirstFree(t) /\ actionSearch(t)
    \/ \E t \in Slots : FirstFree(t) /\ actionNextPage(t)
    \/ \E t \in Slots : FirstFree(t) /\ actionPreviousPage(t)
    \/ \E t \in Slots : PreSearchReturns(t, "absent", Absent)
    \/ \E t \in Slots, resp \in InterleavedResponses : ListResponse(t, resp)
    \/ \E t \in Slots : PreUpdateTableReturns(t, "absent", NotAList)
    \/ \E t \in Slots : PostUpdateTableReturns(t, "absent")

SpecInterleaved == InitNoHooks /\ [][NextInterleaved]_vars

\* ------------------------------------------------------------------------
\* Paged editing: no hooks configured; saving and deleting on any page of
\* the listing, one action at a time
\* ------------------------------------------------------------------------
NextPagedEditing ==
    \/ Idle /\ actionSearch(1)
    \/ Idle /\ actionNextPage(1)
    \/ Idle /\ actionPreviousPage(1)
    \/ Idle /\ actionSave(1)
    \/ Idle /\ actionDelete(1)
    \/ PreSearchReturns(1, "absent", Absent)
    \/ \E resp \in ListResponses : ListResponse(1, resp)
    \/ PreUpdateTableReturns(1, "absent", NotAList)
    \/ PostUpdateTableReturns(1, "absent")
    \/ PreUpdateFormReturns(1, "absent", EmptyItem)
    \/ PostUpdateFormReturns(1, "absent")
    \/ PreSaveReturns(1, "absent", NoBody)
    \/ \E resp \in ItemResponses : SaveResponse(1, resp)
    \/ PostSaveReturns(1, "absent")
    \/ PreDeleteReturns(1, "absent", Absent)
    \/ \E resp \in ItemResponses : DeleteResponse(1, resp)
    \/ PostDeleteReturns(1, "absent")

SpecPagedEditing == InitNoHooks /\ [][NextPagedEditing]_vars

\* ------------------------------------------------------------------------
\* Interleaved editing: no hooks configured; the user selects, creates and
\* saves without waiting for the action before to end
\* ------------------------------------------------------------------------
\* single-item responses explored here: a failure, an empty answer and the
\* two items
EditingResponses == {NetFail, NoContent, Ok("object", <<ItemA>>, -1),
                     Ok("results", <<ItemB>>, -1)}

NextInterleavedEditing ==
    \/ \E t \in Slots, id \in SelectArgs : FirstFree(t) /\ actionSelect(t, id)
    \/ \E t \in Slots : FirstFree(t) /\ actionCreate(t)
    \/ \E t \in Slots : FirstFree(t) /\ actionSave(t)
    \/ \E t \in Slots : PreSearchReturns(t, "absent", Absent)
    \/ \E t \in Slots, resp \in InterleavedResponses : ListResponse(t, resp)
    \/ \E t \in Slots : PreUpdateTableReturns(t, "absent", NotAList)
    \/ \E t \in Slots : PostUpdateTableReturns(t, "absent")
    \/ \E t \in Slots, resp \in EditingResponses : FindResponse(t, resp)
    \/ \E t \in Slots : PreUpdateFormReturns(t, "absent", EmptyItem)
    \/ \E t \in Slots : PostUpdateFormReturns(t, "absent")
    \/ \E t \in Slots : PreSaveReturns(t, "absent", NoBody)
    \/ \E t \in Slots, resp \in EditingResponses : SaveResponse(t, resp)
    \/ \E t \in Slots : PostSaveReturns(t, "absent")

SpecInterleavedEditing == InitNoHooks /\ [][NextInterleavedEditing]_vars

\* ------------------------------------------------------------------------
\* Paging against a server that pages: no hooks configured, one action at a
\* time; a listing request is answered with the one item of the page it asks
\* for, whose identity is that page number, or fails
\* ------------------------------------------------------------------------
PageOf(n) == Ok("results", <<Item(Str(ToString(n)), Str("Foo"))>>, 12)

NextPagedServer ==
    \/ Idle /\ actionSearch(1)
    \/ Idle /\ actionNextPage(1)
    \/ Idle /\ actionPreviousPage(1)
    \/ PreSearchReturns(1, "absent", Absent)
    \/ \E resp \in {NetFail, PageOf(tasks[1].req.page)} : ListResponse(1, resp)
    \/ PreUpdateTableReturns(1, "absent", NotAList)
    \/ PostUpdateTableReturns(1, "absent")

SpecPagedServer == InitNoHooks /\ [][NextPagedServer]_vars

\* ------------------------------------------------------------------------
\* Construction: the page builds the engine from an argument that may be
\* defective, then uses whatever entry points got bound
\* ------------------------------------------------------------------------
NextConstruct ==
    \/ Construct
    \/ Bound("easySearch") /\ Idle /\ actionSearch(1)
    \/ \E id \in SelectArgs : Bound("easySelect") /\ Idle /\ actionSelect(1, id)
    \/ Bound("easyCreate") /\ Idle /\ actionCreate(1)
    \/ TableStep
    \/ FormStep

SpecConstruct == InitUnbuilt /\ [][NextConstruct]_vars

\* ------------------------------------------------------------------------
\* The helpers on their own: an engine without hooks evaluates one helper
\* on one input
\* ------------------------------------------------------------------------
MaxText == 2
MaxElems == 2
LineChars == {"a", " ", "\n"}
Texts == UNION {[1..k -> LineChars] : k \in 0..MaxText}

Containers == {Obj(NoProps),
               Obj(Put(NoProps, "a", Num(<<"7">>))),
               Obj(Put(NoProps, "a", JNull)),
               Obj(Put(NoProps, "a", Obj(NoProps))),
               Obj(Put(NoProps, "a", Obj(Put(NoProps, "b", Txt(<<"a">>)))))}
Paths == {<<"a">>, <<"x">>, <<"a", "b">>, <<"x", "y">>, <<"a", "b", "c">>}
Values == {Num(<<"5">>), Txt(<<"a">>), JNull, Obj(NoProps)}

ControlNames == {<<"">>, <<"name">>, <<"meta">>, <<"meta", "tags">>}
ControlFormats == {"text", "formatJSON", "formatArray"}
ControlTexts == {<<"s">>, <<"{">>, <<"1">>}
Controls == {Control(n, d, f, v) : n \in ControlNames, d \in BOOLEAN,
                                   f \in ControlFormats, v \in ControlTexts}
Forms == UNION {[1..k -> Controls] : k \in 1..2}
DisplayedItems == {Obj(NoProps),
                   Obj(Put(NoProps, "name", Txt(<<"b">>))),
                   Obj(Put(Put(NoProps, "name", Num(<<"7">>)),
                           "meta", JNull))}
TagsControl == Control(<<"tags">>, FALSE, "formatArray", <<>>)

Bodies ==
    {NetFail, NoContent} \cup {HttpFail(e) : e \in HttpErrors}
    \cup {Ok(shape, items, 12) :
            shape \in {"array", "results"},
            items \in {<<>>, <<ItemA>>, <<ItemB, ItemA>>}}
    \cup {Ok("object", <<ItemA>>, -1), Ok("null", <<>>, -1)}

\* the helper to evaluate and its input
PureCall ==
    \/ \E r \in Bodies, m \in BOOLEAN, c \in BOOLEAN :
          call = Call("fetchJSON", [resp |-> r, array |-> m, count |-> c])
    \/ \E o \in Containers, q \in Paths :
          call = Call("deepFind", [obj |-> o, path |-> q])
    \/ \E o \in Containers, q \in Paths, x \in Values :
          call = Call("deepSet", [obj |-> o, path |-> q, value |-> x])
    \/ \E f \in Forms : call = Call("readFormFields", [controls |-> f])
    \/ \E f \in Forms, o \in DisplayedItems :
          call = Call("writeFormFields", [controls |-> f, obj |-> o])
    \/ \E k \in 0..MaxElems : \E l \in [1..k -> Texts] :
          call = Call("displayThenRead",
                      [controls |-> <<TagsControl>>,
                       obj |-> Obj(Put(NoProps, "tags", Arr(l)))])

InitPure == PureCall /\ hooks = {} /\ Built

Pending(fn) == call.fn = fn /\ call.out = <<>>
Return(x) ==
    /\ call' = [call EXCEPT !.out = <<x>>]
    /\ UNCHANGED <<engine, hooks, search, form, rows, status, pageNumber,
                   pageTotal, pager, tasks>>

ApplyFetchJSON ==
    /\ Pending("fetchJSON")
    /\ Return(fetchJSON(call.args.resp, call.args.array, ~call.args.array,
                        call.args.count, 0))
ApplyDeepFind ==
    /\ Pending("deepFind")
    /\ Return(deepFind(call.args.obj, call.args.path))
ApplyDeepSet ==
    /\ Pending("deepSet")
    /\ Return(deepSet(call.args.obj, call.args.path, call.args.value))
ApplyReadFormFields ==
    /\ Pending("readFormFields")
    /\ Return(ReadControls(call.args.controls))
ApplyWriteFormFields ==
    /\ Pending("writeFormFields")
    /\ Return(WriteControls(call.args.controls, call.args.obj))
\* _updateForm writes the item into the form, a later save reads the form
ApplyDisplayThenRead ==
    /\ Pending("displayThenRead")
    /\ Return(ReadControls(WriteControls(call.args.controls,
                                         call.args.obj)))

NextPure ==
    \/ ApplyFetchJSON
    \/ ApplyDeepFind
    \/ ApplyDeepSet
    \/ ApplyReadFormFields
    \/ ApplyWriteFormFields
    \/ ApplyDisplayThenRead

SpecPure == InitPure /\ [][NextPure]_vars

Spec == Init /\ [][Next]_vars

TypeOK ==
    /\ hooks \in HookConfigs
    /\ pageNumber \in 0..(MaxOffset + 1)
    /\ \A t \in Slots : tasks[t].out \in {"", "ok", "caught", "unhandled"}


\* ------------------------------------------------------------------------
\* Properties
\* ------------------------------------------------------------------------
PreHooks == {"preSearch", "preUpdateTable", "preUpdateForm", "preSave",
             "preDelete"}
PostHooks == {"postUpdateTable", "postUpdateForm", "postSave", "postDelete"}
FailureTexts == {"Failed to load items", "Failed to load item",
                 "Item not saved", "Item not deleted"}
SavedText == "Item saved\nEditing existing item"

Has(tr, e, a) == \E i \in DOMAIN tr : tr[i].e = e /\ tr[i].a = a
Requests(tr) == SelectSeq(tr, LAMBDA x : x.e = "req")
Writes(tr) == SelectSeq(tr, LAMBDA x : x.e = "req" /\ x.a # "GET")
Deletes(tr) == SelectSeq(tr, LAMBDA x : x.e = "req" /\ x.a = "DELETE")
Returned(tr, name, n) ==
    \E i \in DOMAIN tr : tr[i].e = "ret" /\ tr[i].a = name /\ tr[i].n = n
ReturnedValue(tr, name, v) ==
    \E i \in DOMAIN tr :
        tr[i].e = "ret" /\ tr[i].a = name /\ tr[i].n = 1 /\ tr[i].b = v

C2_PostSaveRaiseKeepsSuccess ==
    \A t \in Slots :
        (/\ tasks[t].act = "save" /\ tasks[t].pc = "done"
         /\ tasks[t].item.def
         /\ Has(tasks[t].trace, "raise", "postSave"))
        => /\ status.text = SavedText
           /\ Has(tasks[t].trace, "write", "form")
           /\ Has(tasks[t].trace, "req", "GET")

\* C3: no DELETE request has an empty identity part, and deleteSelected()
\* with an empty identity control and no preDelete hook issues no request
\* and ends with the failure status carrying 'Nothing selected'.
C3_NeverDeleteWithoutIdentity ==
    \A t \in Slots :
        /\ \A i \in DOMAIN tasks[t].trace :
              LET ev == tasks[t].trace[i]
              IN  (ev.e = "req" /\ ev.a = "DELETE")
                  => ev.b \notin {Endpoint.path, Endpoint.path \o "/"}
        /\ (/\ tasks[t].act = "delete"
            /\ tasks[t].fidv = ""
            /\ "preDelete" \notin hooks
            /\ tasks[t].pc # "D_pre")
           => /\ tasks[t].pc = "done"
              /\ Requests(tasks[t].trace) = <<>>
              /\ status = Status("Item not deleted", "Nothing selected")

C3_Witness ==
    \E t \in Slots :
        /\ tasks[t].act = "delete" /\ tasks[t].pc = "done"
        /\ tasks[t].fidv = "" /\ "preDelete" \notin hooks
        /\ status.detail = "Nothing selected"

\* C4 as claimed: with an item selected and a preDelete hook that returned
\* nothing, deleteSelected() issues no DELETE and fails with 'Nothing
\* selected'.
C4_SilentHookBlocksDelete ==
    \A t \in Slots :
        (/\ tasks[t].act = "delete"
         /\ tasks[t].fidv # ""
         /\ Returned(tasks[t].trace, "preDelete", 0))
        => /\ Deletes(tasks[t].trace) = <<>>
           /\ status = Status("Item not deleted", "Nothing selected")

\* C4 amended: with an item selected and a preDelete hook that returned
\* nothing, deleteSelected() is not blocked: its first request is the DELETE
\* of the selected identity.
C4_SilentHookDeletesSelected ==
    \A t \in Slots :
        (/\ tasks[t].act = "delete"
         /\ tasks[t].fidv # ""
         /\ Returned(tasks[t].trace, "preDelete", 0))
        => /\ Requests(tasks[t].trace) # <<>>
           /\ Requests(tasks[t].trace)[1] =
                 Ev("req", "DELETE",
                    Endpoint.path \o "/" \o tasks[t].fidv, -1)
           /\ Len(Deletes(tasks[t].trace)) = 1

C4_Witness ==
    \E t \in Slots :
        /\ tasks[t].act = "delete" /\ tasks[t].pc = "done"
        /\ tasks[t].fidv = "1"
        /\ Returned(tasks[t].trace, "preDelete", 0)
        /\ Has(tasks[t].trace, "req", "DELETE")
        /\ status.text = "Item deleted"

\* C5: with nothing selected and a preDelete hook that returned a non-empty
\* identity i, deleteSelected() issues exactly one DELETE, to
\* endpointBase/i; and whenever the hook has not raised, the DELETE is
\* issued if and only if an item was selected or the hook returned a value.
C5_HookSuppliesIdentity ==
    \A t \in Slots :
        (/\ tasks[t].act = "delete"
         /\ tasks[t].pc # "D_pre"
         /\ ~Has(tasks[t].trace, "raise", "preDelete"))
        => LET tr == tasks[t].trace
               supplied == \E v \in DeleteReplacements :
                              v.v # "" /\ ReturnedValue(tr, "preDelete", v.v)
           IN  /\ (Deletes(tr) # <<>>) <=> (tasks[t].fidv # "" \/ supplied)
               /\ \A v \in DeleteReplacements :
                     (/\ tasks[t].fidv = "" /\ v.v # ""
                      /\ ReturnedValue(tr, "preDelete", v.v))
                     => Deletes(tr) =
                           <<Ev("req", "DELETE",
                                Endpoint.path \o "/" \o v.v, -1)>>

C5_Witness ==
    \E t \in Slots :
        /\ tasks[t].act = "delete" /\ tasks[t].pc = "done"
        /\ tasks[t].fidv = ""
        /\ ReturnedValue(tasks[t].trace, "preDelete", "2")
        /\ Deletes(tasks[t].trace) =
              <<Ev("req", "DELETE", "/api/widgets/2", -1)>>


\* C6: the write request of save() is a POST to the base endpoint (without
\* the query string) when the identity control was empty at invocation, a
\* PUT to endpointBase/id when it held id; save() issues at most one
\* request that is not a GET, and it is the first request of the action.
C6_SaveCreatesOrUpdates ==
    \A t \in Slots :
        tasks[t].act = "save"
        => LET tr == tasks[t].trace
               expected == IF tasks[t].fidv = ""
                           THEN Ev("req", "POST", Endpoint.path, -1)
                           ELSE Ev("req", "PUT",
                                   Endpoint.path \o "/" \o tasks[t].fidv, -1)
           IN  /\ Len(Writes(tr)) <= 1
               /\ Requests(tr) # <<>> => Requests(tr)[1] = expected
               /\ tasks[t].pc \in {"S_fetch", "S_post"}
                     => Writes(tr) = <<expected>>

C6_Witness ==
    \E t \in Slots :
        /\ tasks[t].act = "save" /\ tasks[t].pc = "S_post"
        /\ tasks[t].fidv = "1"
        /\ Writes(tasks[t].trace) = <<Ev("req", "PUT", "/api/widgets/1", -1)>>

\* C7 as claimed: the record save() sends has no key for a plain scalar
\* field whose control is empty (identity empty, name "Foo": the body is
\* exactly {"name":"Foo"}).
C7_EmptyFieldsAreOmitted ==
    \A t \in Slots :
        (/\ tasks[t].act = "save" /\ tasks[t].pc = "S_fetch"
         /\ "preSave" \notin hooks)
        => /\ \A n \in DOMAIN tasks[t].saveData : tasks[t].saveData[n] # ""
           /\ (tasks[t].fidv = "" /\ form[NameField].value = "Foo")
                 => tasks[t].saveData = [name |-> "Foo"]

\* C7 amended: the record save() sends has one key for every named, enabled
\* field, an empty control contributing the empty string (identity empty,
\* name "Foo": POST with body exactly {"id":"","name":"Foo"}).
C7_EmptyFieldsAreSent ==
    \A t \in Slots :
        (/\ tasks[t].act = "save" /\ tasks[t].pc = "S_fetch"
         /\ "preSave" \notin hooks)
        => /\ DOMAIN tasks[t].saveData = FormFields
           /\ \A n \in FormFields : tasks[t].saveData[n] = form[n].value
           /\ (tasks[t].fidv = "" /\ form[NameField].value = "Foo")
                 => /\ tasks[t].saveData = [id |-> "", name |-> "Foo"]
                    /\ tasks[t].req = Req("POST", "/api/widgets", -1)

C7_Witness ==
    \E t \in Slots :
        /\ tasks[t].act = "save" /\ tasks[t].pc = "S_fetch"
        /\ "preSave" \notin hooks
        /\ tasks[t].fidv = "" /\ form[NameField].value = "Foo"
        /\ tasks[t].saveData[IdField] = ""

\* C8: after a save() without hooks whose write request returned an item
\* with identity i and display name n, and whose listing request succeeded,
\* the identity control holds i and the reported status contains n.
C8_SavedItemShown ==
    \A t \in Slots :
        (/\ tasks[t].act = "save" /\ tasks[t].pc = "done"
         /\ hooks = {}
         /\ tasks[t].item.def /\ Truthy(tasks[t].item.name)
         /\ Has(tasks[t].trace, "write", "table"))
        => /\ form[IdField].value = DomString(tasks[t].item.id)
           /\ status = Status(SavedText, DomString(tasks[t].item.name))

C11_ReturnedValueReplaces ==
    \A t \in Slots :
        tasks[t].pc = "T_fetch"
        => LET tr == tasks[t].trace
               rets == {i \in DOMAIN tr :
                           tr[i].e = "ret" /\ tr[i].a = "preSearch"
                           /\ tr[i].n = 1}
               term == IF rets # {} THEN tr[CHOOSE i \in rets : TRUE].b
                       ELSE search
           IN  tasks[t].req.url =
                  IF term = "" THEN "/api/widgets?sort=name"
                  ELSE "/api/widgets?sort=name&q=" \o term

\* C12: a preSearch, preSave or preDelete hook receives a mutable meta
\* object as second argument; when the hook sets meta.url (here to
\* "/api/other"), the request of that action is sent to that URL.
C12_MetaUrlOverrides ==
    \A t \in Slots :
        \A j \in DOMAIN tasks[t].trace :
            LET tr == tasks[t].trace
            IN  (tr[j].e = "meta" /\ tr[j].a \in MetaHooks)
                => \E i \in DOMAIN tr :
                      i > j /\ tr[i].e = "req" /\ tr[i].b = "/api/other"

\* C13: whenever an item is fetched by identity (select by id, reset with a
\* selection), a configured preFindByID hook is called before the GET
\* endpointBase/{id} request is issued.
C13_PreFindByIDPrecedesFetch ==
    \A t \in Slots :
        (tasks[t].act \in {"select", "reset"} /\ "preFindByID" \in hooks)
        => \A i \in DOMAIN tasks[t].trace :
              LET tr == tasks[t].trace
              IN  (tr[i].e = "req" /\ tr[i].a = "GET")
                  => \E j \in 1..(i - 1) :
                        tr[j].e = "call" /\ tr[j].a = "preFindByID"

\* A step in which slot t starts the action act
Started(t, act) ==
    /\ Free(t)
    /\ tasks'[t].act = act
    /\ tasks'[t].pc = "T_hook"

\* C14: the pagination offset is always a non-negative multiple of the
\* (positive) page increment: nextPage() adds the increment, previousPage()
\* subtracts it and clamps at 0, and no other step of a page navigation,
\* whether its request succeeds, fails or interleaves with another action,
\* changes the offset.
C14_OffsetMultipleOfIncrement ==
    /\ [](pageNumber >= 0 /\ pageNumber % PageIncrement = 0)
    /\ [][ /\ \A t \in Slots :
               /\ Started(t, "next") => pageNumber' = pageNumber + 5
               /\ Started(t, "prev") =>
                     pageNumber' = IF pageNumber = 0 THEN 0 ELSE pageNumber - 5
          /\ (\A t \in Slots, a \in {"search", "next", "prev"} :
                  ~Started(t, a))
                => pageNumber' = pageNumber ]_vars

\* three nextPage() from 0 built a request for offset 15, and a
\* previousPage() has then brought the offset to 10
C14_Witness ==
    \E t, u \in Slots :
        /\ tasks[t].act = "next" /\ tasks[t].req.page = 15
        /\ tasks[u].act = "prev" /\ tasks[u].pc = "T_hook"
        /\ pageNumber = 10

\* C15: an explicit search() sets the pagination offset to 0 before its
\* request is built, so that its request asks for offset 0; the search
\* re-run by nextPage(), previousPage(), save() and deleteSelected() leaves
\* the offset as it is, and the page-number parameter of its request is the
\* current offset.
C15_OnlyExplicitSearchResetsOffset ==
    /\ [](\A t \in Slots :
            /\ tasks[t].act = "search" => pageNumber = 0
            /\ \A i \in DOMAIN tasks[t].trace :
                  LET ev == tasks[t].trace[i]
                  IN  (ev.e = "req" /\ ev.b = "/api/widgets?sort=name")
                      => /\ ev.a = "GET"
                         /\ ev.n = pageNumber
                         /\ tasks[t].act = "search" => ev.n = 0)
    /\ [][ \A t \in Slots :
             /\ Started(t, "search") => pageNumber' = 0
             /\ tasks'[t].act \in {"save", "delete"}
                   => pageNumber' = pageNumber
             /\ (tasks[t].act \in {"next", "prev"} /\ ~Free(t))
                   => pageNumber' = pageNumber ]_vars

\* a save() on the third page has re-run the search for offset 10
C15_Witness ==
    \E t \in Slots :
        /\ tasks[t].act = "save" /\ tasks[t].pc = "done"
        /\ pageNumber = 10
        /\ Has(tasks[t].trace, "write", "table")
        /\ \E i \in DOMAIN tasks[t].trace :
              tasks[t].trace[i] = Ev("req", "GET", "/api/widgets?sort=name", 10)

\* C16: resetForm() invoked while the identity control is empty (no
\* form-update hook configured) issues no request, writes an empty item to
\* the form and ends with the status 'Editing new item'.
C16_ResetWithoutSelection ==
    \A t \in Slots :
        (/\ tasks[t].act = "reset" /\ tasks[t].pc = "done"
         /\ tasks[t].fidv = ""
         /\ "preUpdateForm" \notin hooks /\ "postUpdateForm" \notin hooks)
        => /\ Requests(tasks[t].trace) = <<>>
           /\ \A n \in FormFields : form[n].value = ""
           /\ status = Status("Editing new item", "")

\* C17 as claimed: a createNew() that completes has issued no request, has
\* removed the selected mark from every listing row, has written an empty
\* item to the form, so that the identity control is empty (and a save()
\* right after uses POST), and reports 'Editing new item'.
C17_CreateAlwaysClears ==
    \A t \in Slots :
        (tasks[t].act = "create" /\ tasks[t].pc = "done"
         /\ tasks[t].out = "ok")
        => /\ Requests(tasks[t].trace) = <<>>
           /\ \A i \in DOMAIN rows : ~rows[i].selected
           /\ form[IdField].value = ""
           /\ status = Status("Editing new item", "")

\* C17 amended: createNew() issues no request and removes the selected mark
\* from every listing row; when it completes it reports 'Editing new item'
\* and has written to the form the empty item, or the item a preUpdateForm
\* hook returned in its place; when preUpdateForm is not configured or
\* returned nothing, every field is empty and unmarked at completion, the
\* identity control stays empty, and a save() invoked right after uses POST
\* to the base endpoint.
C17_CreateClearsUnlessHooked ==
    /\ [](\A t \in Slots :
            tasks[t].act = "create"
            => /\ Requests(tasks[t].trace) = <<>>
               /\ \A i \in DOMAIN rows : ~rows[i].selected
               /\ (tasks[t].pc = "done" /\ tasks[t].out = "ok")
                     => /\ status = Status("Editing new item", "")
                        /\ Has(tasks[t].trace, "write", "form")
                        /\ ~Returned(tasks[t].trace, "preUpdateForm", 1)
                              => form[IdField].value = "")
    /\ [][ \A t \in Slots :
             /\ (/\ tasks'[t].act = "create" /\ tasks'[t].pc = "done"
                 /\ tasks'[t].out = "ok" /\ tasks[t].pc # "done"
                 /\ ~Returned(tasks'[t].trace, "preUpdateForm", 1))
                => \A n \in FormFields :
                      form'[n] = [value |-> "", invalid |-> FALSE]
             /\ (/\ tasks[t].act = "create" /\ tasks[t].pc = "done"
                 /\ tasks[t].out = "ok"
                 /\ ~Returned(tasks[t].trace, "preUpdateForm", 1)
                 /\ tasks'[t].act = "save")
                => tasks'[t].req = Req("POST", "/api/widgets", -1) ]_vars

C17_Witness ==
    \E t \in Slots :
        /\ tasks[t].act = "create" /\ tasks[t].pc = "done"
        /\ tasks[t].out = "ok"
        /\ Len(rows) = 2
        /\ form[IdField].value = ""
        /\ status.text = "Editing new item"

\* C18: easySelect(id) with no id, or with an id that matches no item (no
\* listing row, and the server answers the find-by-id request with an HTTP
\* error or with no item), clears the selection: once the action is over, no
\* listing row is marked selected and the identity control is empty (no
\* form-update hook configured).
C18_SelectNothingClears ==
    \A t \in Slots :
        LET tk == tasks[t]
            unmatched ==
                /\ \A i \in DOMAIN rows : rows[i].id # tk.arg.v
                /\ \/ Has(tk.trace, "resp", "fail")
                      /\ \E i \in DOMAIN tk.trace : tk.trace[i].b = "error"
                   \/ tk.out = "ok" /\ tk.item.id = Absent
        IN  (/\ tk.act = "select" /\ tk.pc = "done"
             /\ "preUpdateForm" \notin hooks /\ "postUpdateForm" \notin hooks
             /\ (tk.arg = Absent \/ unmatched))
            => /\ \A i \in DOMAIN rows : ~rows[i].selected
               /\ form[IdField].value = ""

\* C19: when the write request of save() fails at HTTP level with an error
\* payload, exactly the form fields whose name is a key of the payload's
\* errors object, else of its error object, else of the payload itself are
\* marked invalid and all others are unmarked; the save aborts: no field
\* value changes, no form write and no listing request happen, and postSave
\* is not called.
C19_SaveFailureHighlights ==
    /\ [](\A t \in Slots :
            LET tk == tasks[t]
                marked == {n \in FormFields : form[n].invalid}
            IN  (/\ tk.act = "save" /\ tk.pc = "done"
                 /\ tk.trace[Len(tk.trace)] = Ev("abort", "Item not saved", "", -1)
                 /\ tk.trace[Len(tk.trace) - 1] = Ev("resp", "fail", "error", -1))
                => /\ tk.caught = ErrText => marked = {}
                   /\ tk.caught = ErrFields => marked = {"name"}
                   /\ tk.caught = ErrErrors => marked = {"id"}
                   /\ tk.caught = ErrError => marked = {"name"}
                   /\ tk.caught \in {ErrText, ErrFields, ErrErrors, ErrError}
                   /\ Len(Requests(tk.trace)) = 1
                   /\ ~Has(tk.trace, "write", "form")
                   /\ ~Has(tk.trace, "call", "postSave")
                   /\ tk.out = "caught")
    /\ [][ \A t \in Slots :
             (tasks[t].pc = "S_fetch" /\ tasks'[t].pc = "done")
             => /\ \A n \in FormFields : form'[n].value = form[n].value
                /\ rows' = rows ]_vars

\* a failed save has marked the identity field and unmarked the name field
C19_Witness ==
    \E t \in Slots :
        /\ tasks[t].act = "save" /\ tasks[t].pc = "done"
        /\ tasks[t].caught = ErrErrors
        /\ tasks[t].fidv = "1"
        /\ form[IdField].invalid /\ ~form[NameField].invalid
        /\ form[NameField].value = "Foo"

\* C20: a transport failure is converted into a status report, whatever the
\* shape of the error value (a string, an object with message, any other
\* parsed JSON object): when an action ends because a request failed, the
\* status shows the action's failure message, not the in-progress text.
C20_TransportFailureReported ==
    \A t \in Slots :
        LET tk == tasks[t]
        IN  (/\ tk.act \notin {"none", "init"} /\ tk.pc = "done"
             /\ Len(tk.trace) >= 2
             /\ tk.trace[Len(tk.trace)].e = "abort"
             /\ tk.trace[Len(tk.trace) - 1].e = "resp"
             /\ tk.trace[Len(tk.trace) - 1].a = "fail")
            => /\ status.text = tk.trace[Len(tk.trace)].a
               /\ status.text \in FailureTexts

\* C21: no failure escapes the engine uncaught: whatever operation the
\* engine started (an action, or the initial listing load of the
\* constructor), a failure of a request or of a hook ends in a catch block of
\* the engine, never in an unhandled rejection.
C21_NoUnhandledRejection ==
    \A t \in Slots : tasks[t].out # "unhandled"

\* C22: constructing the engine from a defective argument (endpoint, listing
\* surface, column list, editing surface, table body, identity control or
\* headers) raises at once with the message of the first failing check, binds
\* no entry point or handler and starts no request; a valid argument yields an
\* engine at offset 0 with total 0, nothing selected, everything bound and
\* one initial listing load that issues exactly one listing request.
C22_ConstructionValidates ==
    /\ [](/\ engine.config # {} => engine.state \in {"none", "raised"}
          /\ engine.config = {} => engine.state \in {"none", "ready"}
          /\ engine.state = "raised" =>
                /\ engine.bound = {}
                /\ \A t \in Slots : tasks[t] = IdleTask
                /\ rows = <<>> /\ status = Status("", "")
                /\ "endpoint" \in engine.config =>
                      engine.error = ValidationMessage("endpoint")
                /\ engine.config = {"idControl", "headers"} =>
                      engine.error = ValidationMessage("idControl")
                /\ engine.config = {"headers"} =>
                      engine.error = ValidationMessage("headers")
          /\ \A t \in Slots : tasks[t].act = "init" =>
                /\ Len(Requests(tasks[t].trace)) <= 1
                /\ \A i \in DOMAIN Requests(tasks[t].trace) :
                      LET r == Requests(tasks[t].trace)[i]
                      IN  r.a = "GET" /\ r.n = 0
                /\ (tasks[t].pc # "T_hook"
                       /\ ~Has(tasks[t].trace, "raise", "preSearch"))
                      => Len(Requests(tasks[t].trace)) = 1)
    /\ [][engine.state = "none" /\ engine'.state = "ready" =>
            /\ pageNumber' = 0 /\ pageTotal' = 0
            /\ \A i \in DOMAIN rows' : ~rows'[i].selected
            /\ engine'.bound = Bindings
            /\ tasks'[1].act = "init" /\ tasks'[2] = IdleTask]_vars
C22_Witness ==
    /\ engine.state = "raised"
    /\ engine.config = {"idControl", "headers"}
    /\ engine.error = ValidationMessage("idControl")

\* the helper fn has been applied
Applied(fn) == call.fn = fn /\ call.out # <<>>

\* C23: when an enabled, named JSON-format control holds text that does not
\* parse, the record read from the form has no key for that control.
C23_UnparsableJsonOmitted ==
    Applied("readFormFields") =>
        LET controls == call.args.controls
            r == call.out[1]
        IN  \A i \in DOMAIN controls :
                (/\ ~r.threw
                 /\ Named(controls[i]) /\ ~controls[i].disabled
                 /\ controls[i].format = "formatJSON"
                 /\ controls[i].value = <<"{">>
                 /\ Len(controls[i].name) = 1
                 /\ \A j \in DOMAIN controls :
                       j # i => controls[j].name[1] # controls[i].name[1])
                => controls[i].name[1] \notin DOMAIN r.obj.v

\* the array written into the tags control, and what reading it back gave
Written == call.args.obj.v["tags"].v
ReadBack == call.out[1]
NoBlankElement(r) ==
    /\ ~r.threw
    /\ r.obj.v["tags"].t = "arr"
    /\ \A i \in DOMAIN r.obj.v["tags"].v :
          /\ r.obj.v["tags"].v[i] # <<>>
          /\ ~IsBlank(r.obj.v["tags"].v[i])

\* C24 as claimed: an array of non-blank strings written into an
\* array-format control and read back is the same array, and no array read
\* from such a control has a blank element.
C24_ArrayRoundTrip ==
    Applied("displayThenRead") =>
        /\ NoBlankElement(ReadBack)
        /\ (\A i \in DOMAIN Written : ~IsBlank(Written[i]))
              => ReadBack.obj.v["tags"] = Arr(Written)

\* C24 amended: an array of non-blank strings none of which contains a line
\* break, written into an array-format control and read back, is the same
\* array; and no array read from such a control has a blank element.
C24_ArrayRoundTripOfLines ==
    Applied("displayThenRead") =>
        /\ NoBlankElement(ReadBack)
        /\ (\A i \in DOMAIN Written :
               /\ ~IsBlank(Written[i])
               /\ \A k \in DOMAIN Written[i] : Written[i][k] # "\n")
              => ReadBack.obj.v["tags"] = Arr(Written)
C24_Witness ==
    /\ Applied("displayThenRead")
    /\ Written = <<<<" ", "a">>, <<"a">>>>
    /\ call.args.controls[1].format = "formatArray"
    /\ ReadBack.obj.v["tags"] = Arr(Written)

\* C25: for every container, also one in which a prefix of the path holds a
\* number or null, every path and every value, deepSet followed by deepFind
\* on the same path gives the value back; and deepFind of an object never
\* raises.
C25_SetThenGet ==
    /\ Applied("deepSet") =>
          /\ ~call.out[1].threw
          /\ deepFind(call.out[1].obj, call.args.path)
               = Found(call.args.value)
    /\ Applied("deepFind") => ~call.out[1].threw

\* C26: fetchJSON gives, for every status, body and mode: for status 204 the
\* empty list in list mode and undefined in single-item mode; for a failure
\* status a raise of the parsed body; in list mode the body when it is a
\* list, its results when that is a list, the empty list for anything else;
\* in single-item mode the first element of such a list (undefined when it
\* is empty), the body itself for anything else.
C26_UnwrapsEveryBody ==
    Applied("fetchJSON") /\ call.args.resp.kind # "neterr" =>
        LET resp == call.args.resp
            r == call.out[1]
            seqlike == resp.shape \in {"array", "results"}
        IN  IF resp.kind = "error"
            THEN r.threw /\ r.err = resp.err
            ELSE /\ ~r.threw
                 /\ call.args.array =>
                       r.list = (IF resp.kind = "ok" /\ seqlike
                                 THEN List(resp.items) ELSE List(<<>>))
                 /\ ~call.args.array =>
                       r.item = (IF resp.kind = "204" THEN Undefined
                                 ELSE IF seqlike /\ resp.items = <<>>
                                      THEN Undefined
                                 ELSE IF seqlike \/ resp.shape = "object"
                                      THEN resp.items[1]
                                 ELSE Undefined)

IsDeleteReq(ev) == ev.e = "req" /\ ev.a = "DELETE"
IsListReq(ev) == ev.e = "req" /\ ev.a = "GET" /\ ev.n >= 0
IsFormWrite(ev) == ev = Ev("write", "form", "ok", -1)
IsPostDelete(ev) == ev.e \in {"call", "ret"} /\ ev.a = "postDelete"
Before(tr, P(_), Q(_)) ==
    \A i, j \in DOMAIN tr : P(tr[i]) /\ Q(tr[j]) => i < j

\* C28 as claimed: within one delete the DELETE request comes first, then
\* postDelete, then the form is cleared, and only then is the listing
\* request issued.
C28_DeleteOrder ==
    \A t \in Slots : tasks[t].act = "delete" =>
        /\ Before(tasks[t].trace, IsDeleteReq, IsPostDelete)
        /\ Before(tasks[t].trace, IsPostDelete, IsFormWrite)
        /\ Before(tasks[t].trace, IsFormWrite, IsListReq)

\* C28 amended: within one delete the DELETE request comes first, then
\* postDelete, then the listing request, and only after the listing has been
\* reloaded is the form cleared, followed by the status 'Item deleted'.
C28_DeleteOrderReloadFirst ==
    /\ [](\A t \in Slots : tasks[t].act = "delete" =>
            /\ Before(tasks[t].trace, IsDeleteReq, IsPostDelete)
            /\ Before(tasks[t].trace, IsPostDelete, IsListReq)
            /\ Before(tasks[t].trace, IsDeleteReq, IsListReq)
            /\ Before(tasks[t].trace, IsListReq, IsFormWrite)
            /\ (tasks[t].pc = "done" /\ tasks[t].out = "ok") =>
                  /\ Len(Deletes(tasks[t].trace)) = 1
                  /\ \E i \in DOMAIN tasks[t].trace :
                        IsListReq(tasks[t].trace[i])
                  /\ Has(tasks[t].trace, "write", "table")
                  /\ IsFormWrite(tasks[t].trace[Len(tasks[t].trace) -
                        (IF "postUpdateForm" \in hooks THEN 2 ELSE 0)]))
    /\ [][\A t \in Slots :
            (/\ tasks'[t].act = "delete" /\ tasks[t].pc # "done"
             /\ tasks'[t].pc = "done" /\ tasks'[t].out = "ok")
            => status' = Status("Item deleted", "")]_vars
C28_Witness ==
    \E t \in Slots :
        /\ tasks[t].act = "delete" /\ tasks[t].pc = "done"
        /\ tasks[t].out = "ok"
        /\ Has(tasks[t].trace, "ret", "postDelete")
        /\ status = Status("Item deleted", "")
        /\ form[IdField].value = ""

\* C29: when a save has run to its end and the identity of the saved item, a
\* string or a number, is the identity of a row of the reloaded listing,
\* that row and no other carries the selected mark.
C29_SavedRowSelected ==
    \A t \in Slots :
        (/\ tasks[t].act = "save" /\ tasks[t].pc = "done"
         /\ tasks[t].item.def /\ tasks[t].item.id.t \in {"str", "num"}
         /\ Has(tasks[t].trace, "write", "table")
         /\ ~\E i \in DOMAIN tasks[t].trace : tasks[t].trace[i].e = "abort"
         /\ \E i \in DOMAIN rows : rows[i].id = DomString(tasks[t].item.id))
        => \A i \in DOMAIN rows :
              rows[i].selected <=> rows[i].id = DomString(tasks[t].item.id)

\* the next step of the listing load in slot t, whatever the server answers
LoadStep(t) ==
    \/ PreSearchReturns(t, "absent", Absent)
    \/ \E resp \in InterleavedResponses : ListResponse(t, resp)
    \/ PreUpdateTableReturns(t, "absent", NotAList)
    \/ PostUpdateTableReturns(t, "absent")
Rendering(t) == tasks[t].pc = "T_pre" /\ tasks'[t].pc = "T_post"

\* C30: an action started while another is in flight is in flight at once
\* and leaves the other as it is; every step of one action leaves the other
\* action untouched and able to take its next step; each action issues one
\* request of its own; and the listing changes only when an action renders
\* the response it received itself, so that after two overlapping searches
\* it shows the rows of the one that rendered last.
C30_OverlappingActionsIndependent ==
    /\ [](\A t \in Slots :
            /\ tasks[t].pc \in {"T_fetch", "T_pre", "T_post"} =>
                  Len(Requests(tasks[t].trace)) = 1
            /\ ~Free(t) => ENABLED LoadStep(t))
    /\ [][\A t \in Slots :
            /\ (Free(t) /\ tasks'[t] # tasks[t]) =>
                  tasks'[t].pc = "T_hook" /\ tasks'[t].trace = <<>>
            /\ tasks'[t] # tasks[t] =>
                  \A u \in Slots \ {t} : tasks'[u] = tasks[u]
            /\ (tasks[t].pc = "T_fetch" /\ tasks'[t].pc = "T_pre") =>
                  tasks'[t].data.items \in {<<ItemB, ItemA>>, <<ItemA>>}
            /\ Rendering(t) => rows' = RenderRows(tasks[t].data.items)]_vars
    /\ [][rows' # rows => \E t \in Slots : Rendering(t)]_vars
C30_Witness ==
    /\ tasks[1].act = "search" /\ tasks[1].pc = "T_pre"
    /\ tasks[1].data = List(<<ItemB, ItemA>>)
    /\ tasks[2].act = "search" /\ tasks[2].pc = "T_post"
    /\ rows = RenderRows(<<ItemA>>)

\* the identities and cells of the rows, without their marks
Shown(rs) == [i \in DOMAIN rs |-> [id |-> rs[i].id, cell |-> rs[i].cell]]
OkResponses == {resp \in InterleavedResponses : resp.kind = "ok"}

\* C31: whatever the interleaving of the running actions, at every await the
\* listing is empty (nothing loaded yet) or shows the items of one single
\* response, all of them and in the order of the response: never rows of two
\* responses, never a part of one.
C31_ListingOfOneResponse ==
    \/ rows = <<>>
    \/ \E resp \in OkResponses : Shown(rows) = Shown(RenderRows(resp.items))
C31_Witness ==
    /\ tasks[1].pc = "T_post" /\ tasks[2].pc = "T_post"
    /\ tasks[1].data = List(<<ItemA>>)
    /\ tasks[2].data = List(<<ItemB, ItemA>>)
    /\ Shown(rows) = Shown(RenderRows(<<ItemB, ItemA>>))

\* a listing load started by a search or a page navigation ends well
SearchCompletes(t) ==
    /\ tasks[t].act \in {"search", "next", "prev"}
    /\ tasks[t].pc = "T_post"
    /\ tasks'[t].pc = "done" /\ tasks'[t].out = "ok"
CurrentPage == (pageNumber \div PageIncrement) + 1
LastPage == (pageTotal \div PageIncrement) + 1

\* C32: when a search or a page navigation has completed, the previous
\* control is disabled exactly on page 1 and the next control exactly on the
\* last page, the pages being counted from the offset and the remembered
\* total as they are then, a total of 0 included.
C32_PagerReflectsCursor ==
    [][\A t \in Slots : SearchCompletes(t) =>
          /\ pager'.prevDisabled = (CurrentPage' = 1)
          /\ pager'.nextDisabled = (CurrentPage' = LastPage')]_vars

\* the listing request of t is answered well: _updateTable goes on from its
\* fetchJSON to the preUpdateTable hook
ListingReceived(t) ==
    /\ tasks[t].pc = "T_fetch"
    /\ tasks'[t].pc = "T_pre"
\* the total at the configured path of the body, 0 when it has none
TotalIn(resp) == IF resp.total > 0 THEN resp.total ELSE 0

Marked == {i \in DOMAIN rows : rows[i].selected}

\* C34: whenever no action is running, a row of the listing carries the
\* selected mark exactly when its identity is the non-empty value of the
\* identity control of the form, and at most one row carries it.
C34_MarkFollowsForm ==
    Idle =>
        /\ \A i \in DOMAIN rows :
              rows[i].selected <=> /\ form[IdField].value # ""
                                   /\ rows[i].id = form[IdField].value
        /\ Cardinality(Marked) <= 1

EditingActions == {"select", "create", "save", "delete", "reset"}

\* C35: when an invocation of select, create, save, delete or reset has run
\* to its end, all its requests and hooks having returned, the status no
\* longer reads 'Working...': a terminal status has replaced it.
C35_WorkingReplaced ==
    \A t \in Slots :
        (tasks[t].pc = "done" /\ tasks[t].act \in EditingActions)
            => status.text # "Working..."

\* C36: whatever other actions run meanwhile, a save without preSave hook
\* that sends a PUT sends it to the identity its body carries: the URL and
\* the body were read from the form in one step.
C36_PutUrlMatchesBody ==
    \A t \in Slots :
        (tasks[t].act = "save" /\ tasks[t].pc = "S_fetch"
            /\ tasks[t].req.method = "PUT")
        => tasks[t].req.url = EndpointBase \o "/" \o tasks[t].saveData[IdField]
\* the PUT goes out after another action has put a different item in the form
C36_Witness ==
    \E t \in Slots :
        /\ tasks[t].act = "save" /\ tasks[t].pc = "S_fetch"
        /\ tasks[t].req.method = "PUT"
        /\ tasks[t].saveData[IdField] # form[IdField].value

\* C37: whenever no action is running and the listing shows rows, the
\* pagination offset is the page number of the request that these rows
\* answer; the server here marks each item with the page it was asked for.
C37_OffsetMatchesShownPage ==
    (Idle /\ rows # <<>>) => rows[1].id = ToString(pageNumber)

\* the DELETE request of the action was sent and answered well
DeleteSucceeded(tr) ==
    \E i \in DOMAIN tr :
        /\ tr[i].e = "req" /\ tr[i].a = "DELETE"
        /\ i + 1 \in DOMAIN tr /\ tr[i + 1] = Ev("resp", "ok", "", -1)

\* C38: when a delete whose DELETE request succeeded has ended, it has
\* written the empty item to the form, whatever became of the postDelete
\* hook and of the listing request that follow: the identity control is
\* empty, and a save after it cannot PUT to the deleted identity.
C38_FormClearedAfterDelete ==
    \A t \in Slots :
        (tasks[t].act = "delete" /\ tasks[t].pc = "done"
            /\ DeleteSucceeded(tasks[t].trace))
        => /\ Has(tasks[t].trace, "write", "form")
           /\ form[IdField].value = ""

\* select(id) has ended without reporting a failure, the server having
\* answered with the item of that identity or with no item at all
SelectCompleted(t) ==
    /\ tasks[t].act = "select" /\ tasks[t].pc = "done" /\ tasks[t].out = "ok"
    /\ tasks[t].arg.t = "str" /\ tasks[t].arg.v # ""
    /\ \/ tasks[t].item.id.t = "absent"
       \/ DomString(tasks[t].item.id) = tasks[t].arg.v

\* C39: when select(id) has ended without reporting a failure, the identity
\* control holds id and the status reads 'Editing existing item' with the
\* name or the identity of that item, also when the server had no item to
\* return: never that status over a blank form.
C39_SelectShowsItem ==
    \A t \in Slots :
        SelectCompleted(t) =>
            /\ form[IdField].value = tasks[t].arg.v
            /\ status.text = "Editing existing item"

====
